---- MODULE Spec2Model ----
(***************************************************************************)
(* A model of zhai_agent: the LangGraph workflow built by                  *)
(* WorkflowManager.create_workflow with the node bodies of WorkflowNodes,  *)
(* and the tiered memory (MemoryManager over ShortMemory and LongMemory).  *)
(*                                                                         *)
(* Spec        the compiled workflow, one invocation after the other       *)
(* SpecMemory  calls on one MemoryManager                                  *)
(***************************************************************************)
EXTENDS Integers, Sequences, FiniteSets, TLC

VARIABLES
    app,              \* WorkflowManager.app: 0 is None, k the k-th graph compiled
    pc,               \* "idle" | "running" | "done" (invoke returned) | "raised" (invoke raised)
    todo,             \* nodes of the current superstep that have not run yet
    stepRan,          \* nodes of the current superstep that have returned
    state,            \* the channel values of the run (ChatState)
    started,          \* nodes in the order they started, this invocation
    completed,        \* nodes in the order they returned, this invocation
    runs,             \* invocations started so far
    input,            \* the arguments of the current process_user_request call
    llm_prompt,       \* what chat_node last handed to build_final_prompt / call_model
    kg_query,         \* the user message kg_search_node last sent to the model
    gen,              \* how the generation call of chat_node ended, this invocation
    read_failed,      \* read tasks (rag_node, kg_search_node) that hit an exception, this invocation
    write_failed,     \* write tasks whose handler caught an exception, this invocation
    deadline_at,      \* the task in flight when the time allowed for this invocation was over
    llm_kg_calls,     \* the generation calls and tool runs of llm_kg_node, this invocation
    mirix_users,      \* users known to the Mirix SDK
    mirix_memories,   \* per user, the conversation texts handed to Mirix.add
    threshold,        \* MemoryManager.long_memory_importance_threshold, in tenths
    sm_connected,     \* ShortMemory.is_connected
    sm_max_memory_size, \* ShortMemory.max_memory_size, the capacity of a log
    sm_calls,         \* the ShortMemory.add_message calls of concurrent invocations
    sm_idle,          \* per user, the time since the log was last written, up to memory_ttl
    sm_redis,         \* the Redis keys chat_memory:<user>: a message list, or <<>> when absent
    sm_store,         \* ShortMemory._memory_store (the in-process fallback)
    lm_connected,     \* LongMemory.is_connected
    lm_rows,          \* the rows of table long_term_memory, in insertion order
    uuids,            \* uuid4() values handed out so far
    clock,            \* datetime.now(), a logical clock: one tick per add_message call
    last,             \* the MemoryManager call that returned last, with its arguments
    kg_nodes,         \* the nodes of the Neo4j graph: id, label and properties
    kg_rels           \* the relationships of the Neo4j graph: id, type, end nodes, properties

wfVars    == <<app, pc, todo, stepRan, state, started, completed, runs, input,
               llm_prompt, kg_query, gen, read_failed, write_failed, deadline_at,
               llm_kg_calls>>
mirixVars == <<mirix_users, mirix_memories>>
memVars   == <<threshold, sm_connected, sm_max_memory_size, sm_calls, sm_idle, sm_redis, sm_store,
               lm_connected, lm_rows,
               uuids, clock, last>>
kgVars    == <<kg_nodes, kg_rels>>
vars      == <<wfVars, mirixVars, memVars, kgVars>>

----------------------------------------------------------------------------
(* Bounds of the model. *)
MaxRuns      == 1    \* invocations of process_user_request
MaxDocs      == 1    \* documents the retriever returns
MaxToolCalls == 1    \* tool calls in one model response
MaxWrites    == 2    \* MemoryManager.add_message calls

Users     == {"alice", "bob"}
UserTexts == {"I like cats", "hello"}

None == "None"

----------------------------------------------------------------------------
(* Messages and the messages channel (models/chat_state.py).               *)

\* id 0 is id=None: a message no reducer has seen yet.
HumanMessage(c) == [id |-> 0, type |-> "human", content |-> c]
AIMessage(c)    == [id |-> 0, type |-> "ai", content |-> c]

Last(s) == s[Len(s)]

RECURSIVE MaxId(_)
MaxId(ms) ==
    IF ms = <<>> THEN 0
    ELSE LET r == MaxId(Tail(ms)) IN IF Head(ms).id > r THEN Head(ms).id ELSE r

RECURSIVE AssignIds(_, _)
AssignIds(ms, next) ==
    IF ms = <<>> THEN <<>>
    ELSE IF Head(ms).id = 0
         THEN <<[Head(ms) EXCEPT !.id = next]>> \o AssignIds(Tail(ms), next + 1)
         ELSE <<Head(ms)>> \o AssignIds(Tail(ms), next)

RECURSIVE MergeById(_, _)
MergeById(merged, right) ==
    IF right = <<>> THEN merged
    ELSE LET m   == Head(right)
             idx == {i \in DOMAIN merged : merged[i].id = m.id}
         IN  MergeById(IF idx # {}
                       THEN [merged EXCEPT ![CHOOSE i \in idx : TRUE] = m]
                       ELSE Append(merged, m),
                       Tail(right))

\* A channel that keeps the last message of the update only.
add_messages_latest(left, right) ==
    IF right = <<>> THEN left ELSE <<Last(right)>>

\* langgraph's reducer of ChatState.messages: a message of the update that
\* carries the id of a held message replaces it, any other is appended; a
\* message without id gets a fresh one first.
add_messages(left, right) ==
    MergeById(left, AssignIds(right, MaxId(left \o right) + 1))

\* ChatState as process_user_request builds it, after the input write.
ChatState(user_message, user_name, session_id) ==
    [ messages             |-> add_messages(<<>>, <<HumanMessage(user_message)>>),
      retrieved_documents  |-> 0,
      query                |-> None,
      round                |-> 0,
      user_id              |-> "0",
      session_id           |-> session_id,
      user_name            |-> user_name,
      short_memory_context |-> "",
      memory_context       |-> "",
      rag_context          |-> "",
      kg_context           |-> "" ]

\* The channel values after a node's update `out` (its state.model_dump()):
\* messages go through the reducer, every other field is replaced.
apply_writes(old, out) ==
    [out EXCEPT !.messages = add_messages(old.messages, out.messages)]

\* utils/trans_messages_to_string.py: one line per human or ai message.
RECURSIVE trans_messages_to_string(_)
trans_messages_to_string(ms) ==
    IF ms = <<>> THEN <<>>
    ELSE LET m == Head(ms)
             rest == trans_messages_to_string(Tail(ms))
         IN  IF m.type = "human" THEN <<[who |-> "user", text |-> m.content]>> \o rest
             ELSE IF m.type = "ai" THEN <<[who |-> "assistant", text |-> m.content]>> \o rest
             ELSE rest

AssistantTurns(ms) == {i \in DOMAIN ms : ms[i].type = "ai"}
UserTurns(ms)      == {i \in DOMAIN ms : ms[i].type = "human"}

----------------------------------------------------------------------------
(* The task graph (workflow/workflow_manager.py, create_workflow).         *)

Nodes == {"get_mirix_memory", "rag_node", "kg_search_node", "llm_kg_node",
          "chat", "store_mirix_memory"}

\* A graph whose entry point is the retrieval node.
EntryPointRag == "rag_node"

EntryPoint == "get_mirix_memory"

\* A chain that reaches chat before the graph search.
EdgesChatBeforeKgSearch ==
    { <<"get_mirix_memory", "rag_node">>, <<"rag_node", "llm_kg_node">>,
      <<"llm_kg_node", "chat">>, <<"chat", "kg_search_node">>,
      <<"kg_search_node", "store_mirix_memory">> }

\* A chain that builds the graph after chatting.
EdgesChatBeforeExtract ==
    { <<"get_mirix_memory", "rag_node">>, <<"rag_node", "kg_search_node">>,
      <<"kg_search_node", "chat">>, <<"chat", "llm_kg_node">>,
      <<"llm_kg_node", "store_mirix_memory">> }

\* A chain that searches the graph before retrieving documents.
EdgesKgSearchBeforeRag ==
    { <<"get_mirix_memory", "kg_search_node">>, <<"kg_search_node", "llm_kg_node">>,
      <<"llm_kg_node", "rag_node">>, <<"rag_node", "chat">>,
      <<"chat", "store_mirix_memory">> }

\* A chain that ends at chat: nothing waits for the memory write.
EdgesPersistDetached ==
    { <<"get_mirix_memory", "rag_node">>, <<"rag_node", "llm_kg_node">>,
      <<"llm_kg_node", "kg_search_node">>, <<"kg_search_node", "chat">> }

Edges == { <<"get_mirix_memory", "rag_node">>,
           <<"rag_node", "llm_kg_node">>,
           <<"llm_kg_node", "kg_search_node">>,
           <<"kg_search_node", "chat">>,
           <<"chat", "store_mirix_memory">> }

FinishPoint == "store_mirix_memory"

\* The nodes an edge leads to; the finish point's only edge leads to END.
Successors(n) == {m \in Nodes : <<n, m>> \in Edges}

\* One superstep of the compiled graph runs the nodes its predecessors
\* triggered; the next superstep starts when all of them have returned.
Runnable(n) == pc = "running" /\ n \in todo

\* Node n returns the update `out`.
Finish(n, out) ==
    LET left == todo \ {n}
        ran  == stepRan \cup {n}
        next == IF left # {} THEN left ELSE UNION {Successors(m) : m \in ran}
    IN  /\ state'     = apply_writes(state, out)
        /\ started'   = Append(started, n)
        /\ completed' = Append(completed, n)
        /\ todo'      = next
        /\ stepRan'   = IF left # {} THEN ran ELSE {}
        /\ pc'        = IF next = {} THEN "done" ELSE "running"

\* Node n raises: no handler in the graph or in process_user_request, the
\* exception reaches the caller of invoke and no state is returned.
Raise(n) ==
    /\ pc'      = "raised"
    /\ todo'    = {}
    /\ stepRan' = {}
    /\ started' = Append(started, n)
    /\ UNCHANGED <<state, completed>>

----------------------------------------------------------------------------
(* The Mirix agent (mirix_memory/memory_agent.py).  The SDK is external:   *)
(* a call finds it "ok", unable to create a user, or "down" (it raises).   *)

MirixOutcomes == {"ok", "create_fails", "down"}

\* What Mirix.extract_memory_for_system_prompt may return.
MirixTexts == {None, "memory of the user"}

\* _ensure_user_exists: the users afterwards (sdk # "down").
ensure_user_exists(users, u, sdk) ==
    IF u \in users \/ sdk = "create_fails" THEN users ELSE users \cup {u}

\* extract_memory_for_system_prompt: the first _ensure_user_exists is outside
\* the try, so a raising get_user_by_name leaves the method.
extract_memory_for_system_prompt(users, u, sdk, mem) ==
    IF sdk = "down"
    THEN [raised |-> TRUE, users |-> users, value |-> None]
    ELSE LET us == ensure_user_exists(users, u, sdk)
         IN  [raised |-> FALSE, users |-> us,
              value  |-> IF u \in us THEN mem ELSE None]

\* add_memory that reports success without handing the text to the SDK.
add_memory_dropped(users, mems, u, text, sdk) ==
    IF sdk = "down"
    THEN [ok |-> FALSE, users |-> users, memories |-> mems]
    ELSE LET us == ensure_user_exists(users, u, sdk)
         IN  [ok |-> u \in us, users |-> us, memories |-> mems]

\* add_memory: everything is inside the try; a failure returns an error dict.
add_memory(users, mems, u, text, sdk) ==
    IF sdk = "down"
    THEN [ok |-> FALSE, users |-> users, memories |-> mems]
    ELSE LET us == ensure_user_exists(users, u, sdk)
         IN  IF u \in us
             THEN [ok |-> TRUE, users |-> us,
                   memories |-> [mems EXCEPT ![u] = Append(@, text)]]
             ELSE [ok |-> FALSE, users |-> us, memories |-> mems]

\* prompt/mirix_memory_prompt.py
BlankPrompt == " "
build_mirix_memory_prompt(value, user_name, conversation_buffer) ==
    IF user_name # "" /\ conversation_buffer # <<>> /\ value # None
    THEN "memory context of the user"
    ELSE BlankPrompt

\* WorkflowNodes._get_memory_context: Mirix first; the fallback reads
\* self.context_managers, which only normal_memory_node fills and which is
\* empty in the compiled graph.
get_memory_context(users, st, sdk, mem) ==
    LET r == extract_memory_for_system_prompt(users, st.user_name, sdk, mem)
    IN  [users |-> r.users,
         value |-> IF ~r.raised /\ r.value # None
                   THEN "user memory information" ELSE "no memory information"]

----------------------------------------------------------------------------
(* The language model (llm/llm_client.py).                                 *)

CallModelError  == "error text of call_model"
CompletionError == "error text of create_chat_completion"
ChatApology     == "apology of chat_node"
KgApology       == "apology of llm_kg_node"

\* How the request of call_model ends: a text, an exception, or a response
\* whose message.content is None.
CallModelOutcomes == {"text", "raises", "none"}

\* call_model without its handler's return value: a failed request yields None.
call_model_unhandled(outcome) ==
    IF outcome = "text" THEN "reply of the model" ELSE None

\* LLMClient.call_model: the handler returns the error text as the response.
call_model(outcome) ==
    CASE outcome = "text"   -> "reply of the model"
      [] outcome = "raises" -> CallModelError
      [] outcome = "none"   -> None

ToolNames == {"kg_tool", "unknown_tool"}

ToolCallLists ==
    UNION { {[i \in 1..k |-> [id |-> i, name |-> f[i]]] : f \in [1..k -> ToolNames]}
            : k \in 1..MaxToolCalls }

\* LLMClient.create_chat_completion: the dict it returns.
ChatCompletions(tool_choice) ==
    { [content |-> CompletionError, tool_calls |-> <<>>, finish_reason |-> "error"],
      [content |-> "reply of the model", tool_calls |-> <<>>, finish_reason |-> "stop"] }
    \cup (IF tool_choice = "none" THEN {}
          ELSE {[content |-> "", tool_calls |-> tc, finish_reason |-> "tool_calls"]
                  : tc \in ToolCallLists})

\* prompt/prompt_builder.py
format_section(content, default) == IF content = "" THEN default ELSE content

build_final_prompt(query, memory_context, rag_context, kg_context) ==
    [ memory_section  |-> format_section(memory_context, "no memory"),
      history_section |-> "start of the conversation",
      rag_section     |-> format_section(rag_context, "no references"),
      kg_section      |-> format_section(kg_context, "nothing found in the graph"),
      query           |-> query ]

----------------------------------------------------------------------------
(* The nodes (workflow/workflow_nodes.py).  Each action is one node run:    *)
(* it reads the channel values, and returns its update or raises.          *)

\* state.messages[-1].get('content', ''): the messages of a graph state are
\* message objects of the graph library; a dict-style get on one is answered
\* or is an AttributeError, depending on that class.
GetOutcomes == {"value", "AttributeError"}

\* self._convert_tools_to_openai_format(query_tools), called by
\* kg_search_node: WorkflowNodes has no such method in workflow_nodes.py,
\* where the call is an AttributeError; a converter as the interface
\* describes it returns the tool specifications.
convert_tools_to_openai_format == {"AttributeError", "tools"}

\* self.prompt_builder.build_kg_prompt(error_context), called by the handler
\* of kg_search_node: PromptBuilder has no such method in prompt_builder.py,
\* where the call is an AttributeError; a builder that takes the text returns.
build_kg_prompt == {"AttributeError", "returns"}

\* Load-Memory.
mirix_memory_node ==
    /\ Runnable("get_mirix_memory")
    /\ \E sdk \in MirixOutcomes, mem \in MirixTexts :
         LET buffer == trans_messages_to_string(state.messages)
             r == IF state.user_name # "" /\ buffer # <<>>
                  THEN extract_memory_for_system_prompt(mirix_users, state.user_name, sdk, mem)
                  ELSE [raised |-> FALSE, users |-> mirix_users, value |-> None]
         IN  /\ mirix_users' = r.users
             /\ IF r.raised
                THEN Raise("get_mirix_memory")
                ELSE Finish("get_mirix_memory",
                            [state EXCEPT !.memory_context =
                               build_mirix_memory_prompt(r.value, state.user_name, buffer)])
    /\ UNCHANGED <<kgVars, deadline_at, llm_kg_calls, app, runs, input, llm_prompt, kg_query, gen, read_failed,
                   write_failed, mirix_memories, memVars>>

\* RAG-Retrieve.  retrieve_documents and rerank_documents catch their own
\* exceptions; the node has no handler.
rag_node ==
    /\ Runnable("rag_node")
    /\ \E getter \in GetOutcomes, n \in 0..MaxDocs :
         IF state.messages # <<>> /\ getter = "AttributeError"
         THEN /\ Raise("rag_node")
              /\ read_failed' = read_failed \cup {"rag_node"}
         ELSE /\ Finish("rag_node",
                   [state EXCEPT
                      !.query = IF state.messages # <<>>
                                THEN Last(state.messages).content ELSE "",
                      !.retrieved_documents = n,
                      !.rag_context = IF n = 0 THEN "" ELSE "references"])
              /\ UNCHANGED read_failed
    /\ UNCHANGED <<kgVars, deadline_at, llm_kg_calls, app, runs, input, llm_prompt, kg_query, gen, write_failed,
                   mirixVars, memVars>>

\* An execution that has no result for a tool it does not know.
execute_tool_calls_skipping(tool_calls) ==
    LET known == SelectSeq(tool_calls, LAMBDA c : c.name = "kg_tool")
    IN  [i \in DOMAIN known |-> [call_id |-> known[i].id, result |-> "result of the tool"]]

\* WorkflowNodes._execute_tool_calls: one result per tool call, with the id
\* of the call; for a tool that is not known the result is an error text.
execute_tool_calls(tool_calls) ==
    [i \in DOMAIN tool_calls |->
       [call_id |-> tool_calls[i].id,
        result  |-> IF tool_calls[i].name = "kg_tool" THEN "result of the tool"
                    ELSE "no such tool"]]

\* What llm_kg_node does between its prompt and its reply: the generation
\* calls with their tool_choice and the tool calls they returned, and, when
\* the first call returned tool calls, the run of the tools with the call
\* ids of the tool messages it adds to the request of the second call.
llm_kg_round(llm_response, final_response) ==
    LET id(tc) == [i \in DOMAIN tc |-> tc[i].id]
        first  == [call |-> "create_chat_completion", tool_choice |-> "auto",
                   tool_calls |-> id(llm_response.tool_calls)]
        tool_results == execute_tool_calls(llm_response.tool_calls)
    IN  IF llm_response.tool_calls = <<>> THEN <<first>>
        ELSE <<first,
               [call |-> "_execute_tool_calls",
                tool_call_id |-> [i \in DOMAIN tool_results |-> tool_results[i].call_id]],
               [call |-> "create_chat_completion", tool_choice |-> "none",
                tool_calls |-> id(final_response.tool_calls)]>>

\* Extract-Knowledge: first call, tools, second call; the reply, or the
\* apology of the handler, is appended to state.messages.
llm_kg_node ==
    /\ Runnable("llm_kg_node")
    /\ \E exc \in BOOLEAN, sdk \in MirixOutcomes, mem \in MirixTexts,
          llm_response \in ChatCompletions("auto"),
          final_response \in ChatCompletions("none") :
         LET mc == get_memory_context(mirix_users, state, sdk, mem)
             ai_response == IF llm_response.tool_calls # <<>>
                            THEN final_response.content
                            ELSE llm_response.content
             failed == \/ exc
                       \/ llm_response.finish_reason = "error"
                       \/ /\ llm_response.tool_calls # <<>>
                          /\ final_response.finish_reason = "error"
         IN  /\ mirix_users' = mc.users
             /\ write_failed' = IF failed THEN write_failed \cup {"llm_kg_node"}
                                ELSE write_failed
             /\ llm_kg_calls' = IF exc THEN <<>>
                                ELSE llm_kg_round(llm_response, final_response)
             /\ Finish("llm_kg_node",
                   [state EXCEPT !.messages =
                      Append(@, AIMessage(IF exc THEN KgApology ELSE ai_response))])
    /\ UNCHANGED <<kgVars, deadline_at, app, runs, input, llm_prompt, kg_query, gen, read_failed,
                   mirix_memories, memVars>>

\* KG-Search.
kg_search_node ==
    /\ Runnable("kg_search_node")
    /\ \E conv \in convert_tools_to_openai_format, handler \in build_kg_prompt,
          sdk \in MirixOutcomes, mem \in MirixTexts,
          llm_response \in ChatCompletions("required") :
         LET mc == get_memory_context(mirix_users, state, sdk, mem)
             user_message == IF state.messages # <<>>
                             THEN Last(state.messages).content ELSE ""
         IN  /\ mirix_users' = mc.users
             /\ IF conv = "tools"
                THEN /\ kg_query' = user_message
                     /\ Finish("kg_search_node",
                               [state EXCEPT !.kg_context = "report of the graph queries"])
                     /\ UNCHANGED read_failed
                ELSE /\ read_failed' = read_failed \cup {"kg_search_node"}
                     /\ UNCHANGED kg_query
                     /\ IF handler = "returns"
                        THEN Finish("kg_search_node", state)
                        ELSE Raise("kg_search_node")
    /\ UNCHANGED <<kgVars, deadline_at, llm_kg_calls, app, runs, input, llm_prompt, gen, write_failed,
                   mirix_memories, memVars>>

\* Generate.
chat_node ==
    /\ Runnable("chat")
    /\ IF state.messages = <<>>
       THEN /\ Finish("chat", state)
            /\ UNCHANGED <<llm_prompt, gen>>
       ELSE \E outcome \in CallModelOutcomes :
              LET user_message == Last(state.messages).content
                  ai_response  == call_model(outcome)
              IN  /\ llm_prompt' = build_final_prompt(user_message,
                                      state.memory_context, state.rag_context,
                                      state.kg_context)
                  /\ gen' = CASE outcome = "text"   -> "ok"
                              [] outcome = "raises" -> "error"
                              [] outcome = "none"   -> "raised"
                  /\ Finish("chat",
                        [state EXCEPT !.messages =
                           Append(@, AIMessage(IF ai_response = None
                                               THEN ChatApology ELSE ai_response))])
    /\ UNCHANGED <<kgVars, deadline_at, llm_kg_calls, app, runs, input, kg_query, read_failed, write_failed,
                   mirixVars, memVars>>

\* Persist-Memory.
store_mirix_memory_node ==
    /\ Runnable("store_mirix_memory")
    /\ \E sdk \in MirixOutcomes :
         LET r == add_memory(mirix_users, mirix_memories, state.user_name,
                             trans_messages_to_string(state.messages), sdk)
         IN  /\ mirix_users' = r.users
             /\ mirix_memories' = r.memories
             /\ write_failed' = IF r.ok THEN write_failed
                                ELSE write_failed \cup {"store_mirix_memory"}
             /\ Finish("store_mirix_memory", state)
    /\ UNCHANGED <<kgVars, deadline_at, llm_kg_calls, app, runs, input, llm_prompt, kg_query, gen, read_failed, memVars>>

\* A process_user_request that builds and compiles the graph on every call.
compile_if_missing_always(compiled) == compiled + 1

\* process_user_request: `if self.app is None: self.create_workflow()`; the
\* result is the graph object invoke is then called on.
compile_if_missing(compiled) == IF compiled = 0 THEN 1 ELSE compiled

\* WorkflowManager.create_workflow as the program calls it: once after the
\* constructor (main.py) or behind `if workflow_manager.app is None`
\* (api_server.py).  Each call compiles a new graph.
create_workflow ==
    /\ pc # "running"
    /\ app = 0
    /\ app' = app + 1
    /\ UNCHANGED <<kgVars, deadline_at, llm_kg_calls, pc, todo, stepRan, state, started, completed, runs, input,
                   llm_prompt, kg_query, gen, read_failed, write_failed,
                   mirixVars, memVars>>

\* WorkflowManager.process_user_request up to the start of app.invoke.
process_user_request ==
    /\ pc # "running"
    /\ runs < MaxRuns
    /\ \E user_message \in UserTexts, user_name \in Users :
         /\ input' = [user_message |-> user_message, user_name |-> user_name]
         /\ state' = ChatState(user_message, user_name, "default_session")
    /\ app' = compile_if_missing(app)
    /\ pc' = "running"
    /\ todo' = {EntryPoint}
    /\ stepRan' = {}
    /\ started' = <<>>
    /\ completed' = <<>>
    /\ runs' = runs + 1
    /\ llm_prompt' = None
    /\ kg_query' = None
    /\ gen' = "none"
    /\ read_failed' = {}
    /\ write_failed' = {}
    /\ deadline_at' = None
    /\ llm_kg_calls' = <<>>
    /\ UNCHANGED <<kgVars, mirixVars, memVars>>

\* The time allowed for the invocation is over while a task is in flight.
\* process_user_request calls app.invoke(state) with no timeout and no node
\* looks at the time: the run goes on as it was.
deadline_elapses ==
    /\ pc = "running"
    /\ deadline_at = None
    /\ \E n \in todo : deadline_at' = n
    /\ UNCHANGED <<kgVars, llm_kg_calls, app, pc, todo, stepRan, state, started, completed,
                   runs, input, llm_prompt, kg_query, gen, read_failed, write_failed,
                   mirixVars, memVars>>

----------------------------------------------------------------------------
(* The tiered memory: memory/shortmemory.py, memory/longmemory.py and      *)
(* memory/memory_manager.py.  Importance scores and thresholds are counted *)
(* in tenths: 5 is 0.5.                                                    *)

DefaultThreshold == 5
max_memory_size  == 10

Scores     == {4, 5}
Thresholds == {5, 6}

\* The message dicts a caller hands to add_message; message_id 0 is a dict
\* without the key.
Absent == 0
CallerMessages ==
    { [message_id |-> Absent, type |-> "human", content |-> "hello"],
      [message_id |-> 101,    type |-> "ai",    content |-> "reply of the model"] }

\* How a request to Redis ends on a connected client, and an INSERT on a
\* connected database.
RedisOutcomes == {"ok", "get_fails", "set_fails"}
PgOutcomes    == {"ok", "insert_fails"}

\* The short-term log of user u: the Redis key, or the fallback entry of an
\* instance that never connected.
ShortLog(u) == IF sm_connected THEN sm_redis[u] ELSE sm_store[u]

\* s[-n:]
LastN(s, n) == IF Len(s) <= n THEN s ELSE SubSeq(s, Len(s) - n + 1, Len(s))

\* A get_memory that consumes what it returns: the same read of
\* get_combined_memory, made again, finds nothing.
ShortMemory_get_memory_consuming(u, redis) ==
    IF last.op = "get_combined_memory" /\ last.user_id = u THEN <<>>
    ELSE IF sm_connected
    THEN IF redis = "get_fails" THEN <<>> ELSE sm_redis[u]
    ELSE sm_store[u]

\* ShortMemory.get_memory: the stored list, [] when the key is absent or the
\* request raises.
ShortMemory_get_memory(u, redis) ==
    IF sm_connected
    THEN IF redis = "get_fails" THEN <<>> ELSE sm_redis[u]
    ELSE sm_store[u]

\* An append that reports a failed setex as success.
ShortMemory_append_swallowing(u, existing_messages, message, redis, uuid, now) ==
    [ok |-> TRUE, redis |-> sm_redis, store |-> sm_store]

\* ShortMemory.add_message after its read: the new list made of the list it
\* read, and the return value.  The backend wrapper passes no
\* importance_score, so the entry carries 0.0.
ShortMemory_append(u, existing_messages, message, redis, uuid, now) ==
    LET new_message ==
            [message_id |-> IF message.message_id = Absent THEN uuid
                            ELSE message.message_id,
             type |-> message.type,
             content |-> message.content,
             timestamp |-> now,
             importance_score |-> 0]
        kept == LastN(Append(existing_messages, new_message), sm_max_memory_size)
    IN  IF sm_connected /\ redis = "set_fails"
        THEN [ok |-> FALSE, redis |-> sm_redis, store |-> sm_store]
        ELSE IF sm_connected
        THEN [ok |-> TRUE, redis |-> [sm_redis EXCEPT ![u] = kept], store |-> sm_store]
        ELSE [ok |-> TRUE, redis |-> sm_redis, store |-> [sm_store EXCEPT ![u] = kept]]

ShortMemory_add_message(u, message, redis, uuid, now) ==
    ShortMemory_append(u, ShortMemory_get_memory(u, redis), message, redis, uuid, now)

\* LongMemory.add_message -> store_memory(user_id, [message], importance_score).
LongMemory_store_memory(u, message, importance_score, pg, uuid, now) ==
    IF ~lm_connected THEN [ok |-> FALSE, rows |-> lm_rows]
    ELSE IF pg = "insert_fails" THEN [ok |-> FALSE, rows |-> lm_rows]
    ELSE [ok |-> TRUE,
          rows |-> Append(lm_rows,
                     [user_id |-> u,
                      message_id |-> IF message.message_id = Absent THEN uuid
                                     ELSE message.message_id,
                      message_type |-> message.type,
                      content |-> message.content,
                      timestamp |-> now,
                      importance_score |-> importance_score])]

\* The lifetime ShortMemory gives a user's key, in steps of time_passes.
memory_ttl == 2

\* A key that holds a log was written just now; one that holds none was
\* never written, or its lifetime is over.
IdleAtStart ==
    [u \in Users |-> IF sm_redis[u] = <<>> /\ sm_store[u] = <<>> THEN memory_ttl ELSE 0]

\* setex(key, memory_ttl, value) starts the lifetime of the whole key again;
\* the assignment to _memory_store is a write as well; a failed write is none.
Written(u, ok) ==
    IF ok THEN [sm_idle EXCEPT ![u] = 0] ELSE sm_idle

\* A gate that leaves out a score equal to the threshold.
long_memory_gate_strict(importance_score, long_memory_importance_threshold) ==
    importance_score > long_memory_importance_threshold

\* The condition of MemoryManager.add_message for the long-term write.
long_memory_gate(importance_score, long_memory_importance_threshold) ==
    importance_score >= long_memory_importance_threshold

\* MemoryManager.add_message(user_id, message, importance_score).
add_message ==
    /\ clock < MaxWrites
    /\ \E u \in Users, message \in CallerMessages, importance_score \in Scores,
          redis \in (IF sm_connected THEN RedisOutcomes ELSE {"ok"}) :
         LET now   == clock + 1
             short == ShortMemory_add_message(u, message, redis, uuids + 1, now)
             gated == long_memory_gate(importance_score, threshold)
         IN  \E pg \in (IF gated /\ lm_connected THEN PgOutcomes ELSE {"ok"}) :
               LET long == IF gated
                           THEN LongMemory_store_memory(u, message, importance_score,
                                                        pg, uuids + 2, now)
                           ELSE [ok |-> TRUE, rows |-> lm_rows]
               IN  /\ sm_redis' = short.redis
                   /\ sm_store' = short.store
                   /\ sm_idle' = Written(u, short.ok)
                   /\ lm_rows' = long.rows
                   /\ uuids' = uuids + (IF gated /\ lm_connected THEN 2 ELSE 1)
                   /\ clock' = now
                   /\ last' = [op |-> "add_message", user_id |-> u,
                               message |-> message,
                               importance_score |-> importance_score,
                               short_before |-> ShortLog(u),
                               long_before |-> lm_rows,
                               short_result |-> short.ok,
                               long_result |-> long.ok,
                               result |-> short.ok /\ long.ok]
    /\ UNCHANGED <<kgVars, wfVars, mirixVars, threshold, sm_connected, sm_max_memory_size, sm_calls,
                   lm_connected>>

\* MemoryManager.set_long_memory_threshold(threshold).
set_long_memory_threshold ==
    /\ \E t \in Thresholds :
         /\ threshold' = t
         /\ last' = [op |-> "set_long_memory_threshold", threshold |-> t]
    /\ UNCHANGED <<kgVars, wfVars, mirixVars, sm_connected, sm_max_memory_size, sm_calls,
                   sm_idle,
                   sm_redis, sm_store,
                   lm_connected, lm_rows, uuids, clock>>

----------------------------------------------------------------------------
\* The stores before any write; sm and lm say whether the constructors of
\* ShortMemory and LongMemory reached their servers.
InitStores(sm, lm) ==
    /\ threshold = DefaultThreshold
    /\ sm_connected = sm
    /\ sm_max_memory_size = max_memory_size
    /\ sm_calls = <<>>
    /\ sm_redis = [u \in Users |-> <<>>]
    /\ sm_store = [u \in Users |-> <<>>]
    /\ sm_idle = IdleAtStart
    /\ lm_connected = lm
    /\ lm_rows = <<>>
    /\ uuids = 0
    /\ clock = 0
    /\ last = [op |-> "none"]

InitWorkflow ==
    /\ app = 0
    /\ pc = "idle"
    /\ todo = {}
    /\ stepRan = {}
    /\ state = [ChatState("", "default_user", "default_session") EXCEPT !.messages = <<>>]
    /\ started = <<>>
    /\ completed = <<>>
    /\ runs = 0
    /\ input = [user_message |-> None, user_name |-> None]
    /\ llm_prompt = None
    /\ kg_query = None
    /\ gen = "none"
    /\ read_failed = {}
    /\ write_failed = {}
    /\ deadline_at = None
    /\ llm_kg_calls = <<>>
    /\ mirix_users = {}
    /\ mirix_memories = [u \in Users |-> <<>>]

\* The graph store before any write.
InitGraph ==
    /\ kg_nodes = {}
    /\ kg_rels = {}

Init == InitWorkflow /\ InitStores(TRUE, TRUE) /\ InitGraph

Next ==
    \/ create_workflow
    \/ process_user_request
    \/ mirix_memory_node
    \/ rag_node
    \/ llm_kg_node
    \/ kg_search_node
    \/ chat_node
    \/ store_mirix_memory_node

Spec == Init /\ [][Next]_vars

\* The invocations with the moment their time is over.
NextDeadline ==
    \/ Next
    \/ deadline_elapses

SpecDeadline == Init /\ [][NextDeadline]_vars

\* Calls on one MemoryManager, with either store reachable or not.
InitMemory == InitWorkflow /\ InitGraph /\ \E sm \in BOOLEAN, lm \in BOOLEAN : InitStores(sm, lm)

NextMemory ==
    \/ add_message
    \/ set_long_memory_threshold

SpecMemory == InitMemory /\ [][NextMemory]_vars

----------------------------------------------------------------------------
(* Properties of one invocation of the compiled workflow (Spec).           *)

Range(s) == {s[i] : i \in DOMAIN s}

\* Node y returned before node x started, for every start of x.
StartsAfter(x, y) ==
    \A i \in DOMAIN started :
        started[i] = x =>
            /\ y \in Range(completed)
            /\ \E j \in 1..(i - 1) : started[j] = y

\* C1: when the invocation returns its final state, the Turn list is the
\* user Turn of the input followed by exactly one assistant Turn.
C1_OneAssistantTurnPerRun ==
    pc = "done" =>
        /\ Len(state.messages) = 2
        /\ state.messages[1].type = "human"
        /\ Cardinality(AssistantTurns(state.messages)) = 1

\* C2: Generate (chat) starts only after RAG-Retrieve and KG-Search have both
\* returned, and the rag_context and kg_context it puts into the prompt are
\* the values the state holds once both have returned.
C2_GenerateAfterBothReads ==
    /\ StartsAfter("chat", "rag_node")
    /\ StartsAfter("chat", "kg_search_node")
    /\ "chat" \in Range(started) =>
          /\ llm_prompt.rag_section = format_section(state.rag_context, "no references")
          /\ llm_prompt.kg_section =
                format_section(state.kg_context, "nothing found in the graph")

C2_GenerateRan == "chat" \in Range(completed) /\ state.rag_context # ""

\* C3: Load-Memory is the first task to start, and it has returned before
\* any other task starts.
C3_LoadMemoryFirst ==
    /\ started # <<>> => started[1] = "get_mirix_memory"
    /\ \A n \in Nodes \ {"get_mirix_memory"} : StartsAfter(n, "get_mirix_memory")

C3_ReadTaskStarted ==
    /\ "rag_node" \in Range(started)
    /\ "kg_search_node" \in Range(started)

C7_ReadFailureDoesNotAbort ==
    read_failed # {} => pc # "raised"

\* C8: a write task that fails adds no Turn of its own: every assistant Turn
\* of the state is the one Generate produced.
C8_WriteFailureAddsNoTurn ==
    write_failed # {} =>
        Cardinality(AssistantTurns(state.messages)) =
            (IF "chat" \in Range(completed) THEN 1 ELSE 0)

WriteTasks == {"llm_kg_node", "store_mirix_memory"}
ReadTasks  == {"rag_node", "kg_search_node"}

\* C28: when process_user_request has returned the final state, both write
\* tasks of the invocation have started and have returned, with or without
\* a failure, and no task of the invocation is left to run.
C28_WritesOverAtReturn ==
    pc = "done" =>
       /\ todo = {}
       /\ \A w \in WriteTasks : w \in Range(started) /\ w \in Range(completed)
       /\ write_failed \subseteq Range(completed)

\* An invocation that returned after both write tasks had failed.
C28_ReturnedAfterFailedWrites == pc = "done" /\ write_failed = WriteTasks

\* C29: when the time allowed for the invocation is over while a read task
\* is in flight, that task leaves its context empty and the run goes on;
\* when it is over while Generate is in flight, the invocation does not
\* return a final state: it ends in an error.
C29_DeadlineCancelsReadsFailsGenerate ==
    /\ (deadline_at = "rag_node" /\ "rag_node" \in Range(started)) =>
          /\ state.rag_context = ""
          /\ pc # "raised" \/ Last(started) # "rag_node"
    /\ (deadline_at = "kg_search_node" /\ "kg_search_node" \in Range(started)) =>
          /\ state.kg_context = ""
          /\ pc # "raised" \/ Last(started) # "kg_search_node"
    /\ deadline_at = "chat" => pc # "done"

\* s is the beginning of t.
IsPrefix(s, t) == Len(s) <= Len(t) /\ SubSeq(t, 1, Len(s)) = s

\* The task that sets each context field.
ContextOwner ==
    [memory_context |-> "get_mirix_memory", rag_context |-> "rag_node",
     kg_context |-> "kg_search_node"]

\* C34: at every step of a run the Turn list before the step is the
\* beginning of the list after it, and a context field only changes at a
\* step of the task that sets it.
C34_TurnListOnlyGrows ==
    [][pc = "running" =>
         /\ IsPrefix(state.messages, state'.messages)
         /\ \A f \in DOMAIN ContextOwner :
               state'[f] # state[f] =>
                  started' = Append(started, ContextOwner[f])]_vars

\* A run that returned with three turns and with references.
C34_TurnListGrew ==
    pc = "done" /\ Len(state.messages) = 3 /\ state.rag_context # ""

NodeStep ==
    \/ mirix_memory_node
    \/ rag_node
    \/ llm_kg_node
    \/ kg_search_node
    \/ chat_node
    \/ store_mirix_memory_node

Fairness == WF_vars(NodeStep)

SpecFair == Init /\ [][Next]_vars /\ Fairness

\* How many times node n occurs in a record of starts or returns.
Times(n, record) == Cardinality({i \in DOMAIN record : record[i] = n})

\* Each of the six nodes was started once and returned once.
EachNodeOnce ==
    \A n \in Nodes : Times(n, started) = 1 /\ Times(n, completed) = 1

\* C36: an invocation of process_user_request ends: either a node raises,
\* or invoke returns after each of the six nodes has run exactly once; no
\* node is started twice within an invocation, and one WorkflowManager
\* compiles its graph at most once.
C36_EachNodeOnceThenReturns ==
    /\ (pc = "running") ~> (pc = "raised" \/ (pc = "done" /\ EachNodeOnce))
    /\ [](pc = "done" => EachNodeOnce)
    /\ [](\A n \in Nodes : Times(n, started) <= 1)
    /\ [](app <= 1)

\* A second graph was never compiled and an invocation ran all six nodes,
\* on a manager whose graph the start-up had compiled.
C36_ReturnedAfterSixNodes ==
    /\ pc = "done" /\ app = 1 /\ runs = 1
    /\ Len(completed) = 6

\* C30: the query chat_node puts into the prompt of the model, and the user
\* message kg_search_node sends, are the content of the user turn that
\* started the run.
C30_QueryIsUserTurn ==
    /\ llm_prompt # None => llm_prompt.query = input.user_message
    /\ kg_query # None => kg_query = input.user_message

----------------------------------------------------------------------------
(* Properties of MemoryManager (SpecMemory).                               *)

\* The rows add_message's last call added to long_term_memory.
NewLongRows == SubSeq(lm_rows, Len(last.long_before) + 1, Len(lm_rows))

IsRecordOf(row, u, message) ==
    /\ row.user_id = u
    /\ row.message_type = message.type
    /\ row.content = message.content

IsEntryOf(entry, message) ==
    /\ entry.type = message.type
    /\ entry.content = message.content

\* C10 as stated: add_message creates exactly one long-term record for the
\* turn when score >= threshold and none when score < threshold, and in both
\* cases the turn is the new last entry of the user's short-term log.
C10_LongRecordIffScoreReachesThreshold ==
    last.op = "add_message" =>
        /\ Len(NewLongRows) = (IF last.importance_score >= threshold THEN 1 ELSE 0)
        /\ \A i \in DOMAIN NewLongRows :
              IsRecordOf(NewLongRows[i], last.user_id, last.message)
        /\ ShortLog(last.user_id) # <<>>
        /\ IsEntryOf(Last(ShortLog(last.user_id)), last.message)

\* C10 as amended: add_message creates exactly one long-term record for the
\* turn when score >= threshold and the long-term store takes the write, and
\* none otherwise; the turn becomes the last entry of the user's short-term
\* log when the short-term write succeeds, else the log is unchanged; the call
\* returns true exactly when no attempted write failed.
C10_LongRecordIffGateAndStoreTakesIt ==
    last.op = "add_message" =>
        /\ Len(NewLongRows) =
              (IF last.importance_score >= threshold /\ last.long_result THEN 1 ELSE 0)
        /\ \A i \in DOMAIN NewLongRows :
              /\ IsRecordOf(NewLongRows[i], last.user_id, last.message)
              /\ NewLongRows[i].importance_score = last.importance_score
        /\ last.importance_score < threshold => last.long_result
        /\ last.importance_score >= threshold => (last.long_result <=> Len(NewLongRows) = 1)
        /\ SubSeq(lm_rows, 1, Len(last.long_before)) = last.long_before
        /\ IF last.short_result
           THEN /\ ShortLog(last.user_id) # <<>>
                /\ IsEntryOf(Last(ShortLog(last.user_id)), last.message)
           ELSE ShortLog(last.user_id) = last.short_before
        /\ last.result <=> (last.short_result /\ last.long_result)

C10_RecordAtRaisedThreshold ==
    /\ last.op = "add_message"
    /\ threshold # DefaultThreshold
    /\ clock = MaxWrites
    /\ \E u \in Users : Len(ShortLog(u)) = 2
    /\ Len(lm_rows) = 1
    /\ last.importance_score = DefaultThreshold
    /\ last.long_before # <<>>

----------------------------------------------------------------------------
(* Reads of the tiered memory: MemoryManager.get_combined_memory and       *)
(* MemoryManager.search_memory over stores that already hold turns         *)
(* (SpecRead).  Contents are sequences of characters, so that a substring  *)
(* search is computed.                                                     *)

MaxLimit == 2    \* the largest limit argument of a read

\* The turns the stores may hold: ids, contents and ISO timestamps (counted).
StoredTurns ==
    << [message_id |-> 101, type |-> "human", content |-> <<"C", "a", "t">>,
        timestamp |-> 1],
       [message_id |-> 102, type |-> "ai",    content |-> <<"d", "o", "g">>,
        timestamp |-> 2],
       [message_id |-> 103, type |-> "human", content |-> <<"c", "a", "t", "s">>,
        timestamp |-> 3] >>

Queries == { <<"c", "a", "t">>, <<"o">>, <<"x">> }

\* The subsequences of s, in the order of s.
RECURSIVE SubSeqs(_)
SubSeqs(s) ==
    IF s = <<>> THEN {<<>>}
    ELSE LET rest == SubSeqs(Tail(s))
         IN  rest \cup {<<Head(s)>> \o r : r \in rest}

\* A short-term entry as ShortMemory.add_message writes it.
ShortEntry(t) ==
    [message_id |-> t.message_id, type |-> t.type, content |-> t.content,
     timestamp |-> t.timestamp, importance_score |-> 0]

\* A row of long_term_memory as LongMemory.store_memory inserts it.
LongRow(u, t) ==
    [user_id |-> u, message_id |-> t.message_id, message_type |-> t.type,
     content |-> t.content, timestamp |-> t.timestamp,
     importance_score |-> DefaultThreshold]

MapSeq(s, Op(_)) == [i \in DOMAIN s |-> Op(s[i])]

\* s[:n]
FirstN(s, n) == IF Len(s) <= n THEN s ELSE SubSeq(s, 1, n)

Reverse(s) == [i \in DOMAIN s |-> s[Len(s) + 1 - i]]

\* str.lower() on one character.
LowerChar(c) ==
    CASE c = "C" -> "c" [] c = "A" -> "a" [] c = "T" -> "t" [] c = "D" -> "d"
      [] c = "O" -> "o" [] c = "G" -> "g" [] c = "S" -> "s" [] c = "X" -> "x"
      [] OTHER -> c

lower(str) == [i \in DOMAIN str |-> LowerChar(str[i])]

\* q in s
IsSubstring(q, str) ==
    \E i \in 1..(Len(str) - Len(q) + 1) : SubSeq(str, i, i + Len(q) - 1) = q

\* query.lower() in content.lower(), and content ILIKE %query%.
Matches(query, content) == IsSubstring(lower(query), lower(content))

\* list.sort(key=timestamp): stable, ascending.
RECURSIVE SortByTimestamp(_)
SortByTimestamp(s) ==
    IF s = <<>> THEN <<>>
    ELSE LET sorted == SortByTimestamp(SubSeq(s, 1, Len(s) - 1))
             x == s[Len(s)]
             k == Cardinality({i \in DOMAIN sorted : sorted[i].timestamp <= x.timestamp})
         IN  SubSeq(sorted, 1, k) \o <<x>> \o SubSeq(sorted, k + 1, Len(sorted))

\* list.sort(key=timestamp, reverse=True): stable, descending.
RECURSIVE SortByTimestampReverse(_)
SortByTimestampReverse(s) ==
    IF s = <<>> THEN <<>>
    ELSE LET sorted == SortByTimestampReverse(SubSeq(s, 1, Len(s) - 1))
             x == s[Len(s)]
             k == Cardinality({i \in DOMAIN sorted : sorted[i].timestamp >= x.timestamp})
         IN  SubSeq(sorted, 1, k) \o <<x>> \o SubSeq(sorted, k + 1, Len(sorted))

\* The loop that appends the memories whose message_id is not yet present.
RECURSIVE AppendNew(_, _)
AppendNew(context, mems) ==
    IF mems = <<>> THEN context
    ELSE LET mem == Head(mems)
             existing_ids == {context[i].message_id : i \in DOMAIN context}
         IN  AppendNew(IF mem.message_id \in existing_ids THEN context
                       ELSE Append(context, mem),
                       Tail(mems))

\* The dict LongMemory builds from a row.
RowToMemory(row) ==
    [message_id |-> row.message_id, type |-> row.message_type,
     content |-> row.content, timestamp |-> row.timestamp,
     importance_score |-> row.importance_score]

RowsOf(u) == SelectSeq(lm_rows, LAMBDA r : r.user_id = u)

\* LongMemory.get_memory(user_id, limit): ORDER BY created_at DESC LIMIT,
\* then reversed.
LongMemory_get_memory(u, limit, pg) ==
    IF ~lm_connected \/ pg # "ok" THEN <<>>
    ELSE MapSeq(LastN(RowsOf(u), limit), RowToMemory)

\* LongMemory.search_memory(user_id, query, limit): newest first.
LongMemory_search_memory(u, query, limit, pg) ==
    IF ~lm_connected \/ pg # "ok" THEN <<>>
    ELSE LET hits == SelectSeq(RowsOf(u), LAMBDA r : Matches(query, r.content))
         IN  MapSeq(Reverse(LastN(hits, limit)), RowToMemory)

\* ShortTermMemoryBackend.get_memory(user_id, limit).
ShortTermMemoryBackend_get_memory(u, limit, redis) ==
    FirstN(ShortMemory_get_memory(u, redis), limit)

\* ShortTermMemoryBackend.search_memory(user_id, query, limit).
ShortTermMemoryBackend_search_memory(u, query, limit, redis) ==
    FirstN(SelectSeq(ShortTermMemoryBackend_get_memory(u, limit, redis),
                     LAMBDA m : Matches(query, m.content)),
           limit)

ReadRedisOutcomes == {"ok", "get_fails"}
ReadPgOutcomes    == {"ok", "select_fails"}

\* MemoryManager.get_combined_memory(user_id, include_long_memory, limit).
get_combined_memory ==
    /\ \E u \in Users, include_long_memory \in BOOLEAN, limit \in 1..MaxLimit,
          redis \in ReadRedisOutcomes, pg \in ReadPgOutcomes :
         LET context == ShortTermMemoryBackend_get_memory(u, limit, redis)
             merged  == IF include_long_memory
                        THEN AppendNew(context, LongMemory_get_memory(u, limit, pg))
                        ELSE context
         IN  last' = [op |-> "get_combined_memory", user_id |-> u,
                      include_long_memory |-> include_long_memory,
                      limit |-> limit, redis |-> redis, pg |-> pg,
                      result |-> LastN(SortByTimestamp(merged), limit),
                      \* the call before this one was the same call
                      repeat |-> /\ last.op = "get_combined_memory"
                                 /\ last.user_id = u
                                 /\ last.include_long_memory = include_long_memory
                                 /\ last.limit = limit
                                 /\ last.redis = redis /\ last.pg = pg]
    /\ UNCHANGED <<kgVars, wfVars, mirixVars, threshold, sm_connected, sm_max_memory_size, sm_calls,
                   sm_idle,
                   sm_redis, sm_store,
                   lm_connected, lm_rows, uuids, clock>>

\* MemoryManager.search_memory(user_id, query, limit).
search_memory ==
    /\ \E u \in Users, query \in Queries, limit \in 1..MaxLimit,
          redis \in ReadRedisOutcomes, pg \in ReadPgOutcomes :
         LET short_results == ShortTermMemoryBackend_search_memory(u, query, limit, redis)
             long_results  == LongMemory_search_memory(u, query, limit, pg)
             combined_results == AppendNew(short_results, long_results)
         IN  last' = [op |-> "search_memory", user_id |-> u, query |-> query,
                      limit |-> limit, redis |-> redis, pg |-> pg,
                      result |-> FirstN(SortByTimestampReverse(combined_results), limit)]
    /\ UNCHANGED <<kgVars, wfVars, mirixVars, threshold, sm_connected, sm_max_memory_size, sm_calls,
                   sm_idle,
                   sm_redis, sm_store,
                   lm_connected, lm_rows, uuids, clock>>

\* Stores that hold turns of alice, written before the reads; bob has none.
InitRead ==
    /\ InitWorkflow
    /\ InitGraph
    /\ threshold = DefaultThreshold
    /\ sm_connected = TRUE
    /\ sm_max_memory_size = max_memory_size
    /\ sm_calls = <<>>
    /\ lm_connected = TRUE
    /\ \E S \in SubSeqs(StoredTurns) :
         sm_redis = [u \in Users |-> IF u = "alice" THEN MapSeq(S, ShortEntry) ELSE <<>>]
    /\ sm_store = [u \in Users |-> <<>>]
    /\ sm_idle = IdleAtStart
    /\ \E L \in SubSeqs(StoredTurns) :
         lm_rows = MapSeq(L, LAMBDA t : LongRow("alice", t))
    /\ uuids = 0
    /\ clock = 0
    /\ last = [op |-> "none"]

NextRead ==
    \/ get_combined_memory
    \/ search_memory

SpecRead == InitRead /\ [][NextRead]_vars

----------------------------------------------------------------------------
(* Properties of the reads (SpecRead).                                     *)

\* The turns of both tiers of user u, each id once, short-term first.
BothTiers(u) == AppendNew(<<>>, ShortLog(u) \o MapSeq(RowsOf(u), RowToMemory))

\* C11: with include_long_memory, get_combined_memory returns the turns of
\* both tiers, each id once, sorted by timestamp and cut to the most recent
\* `limit`; also when the short-term log is longer than limit.
C11_CombinedIsSortedUnionCut ==
    (/\ last.op = "get_combined_memory"
     /\ last.include_long_memory
     /\ last.redis = "ok" /\ last.pg = "ok") =>
        last.result = LastN(SortByTimestamp(BothTiers(last.user_id)), last.limit)


C20_SearchReturnsEveryMatch ==
    (last.op = "search_memory" /\ last.redis = "ok" /\ last.pg = "ok") =>
        last.result =
            FirstN(SortByTimestampReverse(
                      SelectSeq(BothTiers(last.user_id),
                                LAMBDA m : Matches(last.query, m.content))),
                   last.limit)

----------------------------------------------------------------------------
(* Writes and the combined read on one MemoryManager (SpecTiers).          *)

NextTiers ==
    \/ add_message
    \/ get_combined_memory

SpecTiers == InitMemory /\ [][NextTiers]_vars

\* C33: a turn that one add_message call wrote to both tiers has the same
\* message id in both, and get_combined_memory with the long-term tier
\* returns no turn twice.  One call writes its turn with one timestamp, and
\* no two calls share a timestamp.
C33_OneIdInBothTiers ==
    /\ \A u \in Users : \A i \in DOMAIN ShortLog(u), j \in DOMAIN RowsOf(u) :
          ShortLog(u)[i].timestamp = RowsOf(u)[j].timestamp =>
             ShortLog(u)[i].message_id = RowsOf(u)[j].message_id
    /\ (last.op = "get_combined_memory" /\ last.include_long_memory) =>
          \A i \in DOMAIN last.result, j \in DOMAIN last.result :
             last.result[i].timestamp = last.result[j].timestamp => i = j

----------------------------------------------------------------------------
(* LongMemory.get_memory with its order_by argument (SpecLong).  The rows  *)
(* carry scores of their own; lm_rows is in insertion order, which is the  *)
(* order of created_at.                                                    *)

\* importance_score values of stored rows, in tenths.
RowScores == {DefaultThreshold, DefaultThreshold + 3}

\* An order_by argument: the two columns, and a string that is neither.
OrderBys == {"created_at", "importance_score", "content"}

\* The orders in which SELECT ... ORDER BY importance_score DESC may return
\* rows: the statement names no second sort key, so rows of equal score
\* come in an order the database chooses.
OrderByScoreDesc(rows) ==
    LET n == Len(rows)
        perms == {p \in [1..n -> 1..n] : \A i, j \in 1..n : p[i] = p[j] => i = j}
        sorted(p) == \A i \in 1..n, j \in 1..n :
                        i < j => rows[p[i]].importance_score >= rows[p[j]].importance_score
    IN  {[i \in 1..n |-> rows[p[i]]] : p \in {q \in perms : sorted(q)}}

\* LongMemory.get_memory(user_id, limit, order_by): the lists the call may
\* return.
LongMemory_get_memory_order_by(u, limit, order_by, pg) ==
    IF ~lm_connected \/ pg # "ok" THEN {<<>>}
    ELSE IF order_by = "importance_score"
    THEN {MapSeq(FirstN(rows, limit), RowToMemory) : rows \in OrderByScoreDesc(RowsOf(u))}
    ELSE {LongMemory_get_memory(u, limit, pg)}

\* A call of LongMemory.get_memory(user_id, limit, order_by).
long_get_memory ==
    /\ \E u \in Users, limit \in 1..MaxLimit, order_by \in OrderBys, pg \in ReadPgOutcomes :
         \E result \in LongMemory_get_memory_order_by(u, limit, order_by, pg) :
            last' = [op |-> "long_get_memory", user_id |-> u, limit |-> limit,
                     order_by |-> order_by, pg |-> pg, result |-> result]
    /\ UNCHANGED <<kgVars, wfVars, mirixVars, threshold, sm_connected, sm_max_memory_size, sm_calls,
                   sm_idle, sm_redis, sm_store,
                   lm_connected, lm_rows, uuids, clock>>

\* Rows of alice written before the reads, each with a score.
InitLong ==
    /\ InitWorkflow
    /\ InitGraph
    /\ threshold = DefaultThreshold
    /\ sm_connected = TRUE
    /\ sm_max_memory_size = max_memory_size
    /\ sm_calls = <<>>
    /\ sm_redis = [u \in Users |-> <<>>]
    /\ sm_store = [u \in Users |-> <<>>]
    /\ sm_idle = IdleAtStart
    /\ lm_connected \in BOOLEAN
    /\ \E L \in SubSeqs(StoredTurns) :
         \E score \in [DOMAIN L -> RowScores] :
            lm_rows = [i \in DOMAIN L |->
                         [LongRow("alice", L[i]) EXCEPT !.importance_score = score[i]]]
    /\ uuids = 0
    /\ clock = 0
    /\ last = [op |-> "none"]

NextLong == long_get_memory

SpecLong == InitLong /\ [][NextLong]_vars

\* C24: get_memory ordered by importance returns its turns by descending
\* importance_score, and turns of equal score newest first.
C24_ImportanceOrderTiesNewestFirst ==
    (last.op = "long_get_memory" /\ last.order_by = "importance_score") =>
       \A i \in DOMAIN last.result, j \in DOMAIN last.result :
          i < j =>
             \/ last.result[i].importance_score > last.result[j].importance_score
             \/ /\ last.result[i].importance_score = last.result[j].importance_score
                /\ last.result[i].timestamp > last.result[j].timestamp

----------------------------------------------------------------------------
(* Writes to one ShortMemory instance: store_memory and add_message called *)
(* on the store itself, for instances of a small capacity (SpecShort).     *)

\* max_memory_size arguments of the constructor.
Capacities == {1, 2}

\* The message lists a caller hands to store_memory.
StoreLists ==
    LET h == [message_id |-> Absent, type |-> "human", content |-> "hello"]
        a == [message_id |-> 101, type |-> "ai", content |-> "reply of the model"]
    IN  { <<h>>, <<h, a>>, <<a, h, a>> }

\* ShortMemory.store_memory: the last max_memory_size messages, serialized,
\* replace the stored list.
ShortMemory_store_memory(u, messages, redis, uuid, now) ==
    LET kept == LastN(messages, sm_max_memory_size)
        serialized_messages ==
            [i \in DOMAIN kept |->
               [message_id |-> IF kept[i].message_id = Absent THEN uuid + i
                               ELSE kept[i].message_id,
                type |-> kept[i].type,
                content |-> kept[i].content,
                timestamp |-> now,
                importance_score |-> 0]]
    IN  IF sm_connected /\ redis = "set_fails"
        THEN [ok |-> FALSE, redis |-> sm_redis, store |-> sm_store]
        ELSE IF sm_connected
        THEN [ok |-> TRUE, redis |-> [sm_redis EXCEPT ![u] = serialized_messages],
              store |-> sm_store]
        ELSE [ok |-> TRUE, redis |-> sm_redis,
              store |-> [sm_store EXCEPT ![u] = serialized_messages]]

\* A call of ShortMemory.store_memory(user_id, messages).
store_memory ==
    /\ clock < MaxWrites
    /\ \E u \in Users, messages \in StoreLists,
          redis \in (IF sm_connected THEN {"ok", "set_fails"} ELSE {"ok"}) :
         LET r == ShortMemory_store_memory(u, messages, redis, uuids, clock + 1)
         IN  /\ sm_redis' = r.redis
             /\ sm_store' = r.store
             /\ sm_idle' = Written(u, r.ok)
             /\ uuids' = uuids + Len(messages)
             /\ clock' = clock + 1
             /\ last' = [op |-> "store_memory", user_id |-> u, messages |-> messages,
                         redis |-> redis, short_before |-> ShortLog(u),
                         short_result |-> r.ok]
    /\ UNCHANGED <<kgVars, wfVars, mirixVars, threshold, sm_connected, sm_max_memory_size, sm_calls,
                   lm_connected, lm_rows>>

\* A call of ShortMemory.add_message(user_id, message).
short_add_message ==
    /\ clock < MaxWrites
    /\ \E u \in Users, message \in CallerMessages,
          redis \in (IF sm_connected THEN RedisOutcomes ELSE {"ok"}) :
         LET r == ShortMemory_add_message(u, message, redis, uuids + 1, clock + 1)
         IN  /\ sm_redis' = r.redis
             /\ sm_store' = r.store
             /\ sm_idle' = Written(u, r.ok)
             /\ uuids' = uuids + 1
             /\ clock' = clock + 1
             /\ last' = [op |-> "short_add_message", user_id |-> u, message |-> message,
                         redis |-> redis, short_before |-> ShortLog(u),
                         short_result |-> r.ok]
    /\ UNCHANGED <<kgVars, wfVars, mirixVars, threshold, sm_connected, sm_max_memory_size, sm_calls,
                   lm_connected, lm_rows>>

\* The methods of the wrapper MemoryManager holds as self.short_memory.
ShortTermMemoryBackend_methods == {"add_memory", "get_memory", "search_memory"}

\* MemoryManager.store_short_memory: hasattr(self.short_memory,
\* 'store_memory') decides between one store_memory call and a loop of
\* self.short_memory.add_message calls, whose first is an AttributeError on
\* an object without that method; an empty list never enters the loop.
MemoryManager_store_short_memory(u, messages, redis, uuid, now) ==
    IF "store_memory" \in ShortTermMemoryBackend_methods
    THEN LET r == ShortMemory_store_memory(u, messages, redis, uuid, now)
         IN  [raised |-> "none", ret |-> r.ok, redis |-> r.redis, store |-> r.store]
    ELSE IF messages = <<>> \/ "add_message" \in ShortTermMemoryBackend_methods
    THEN [raised |-> "none", ret |-> TRUE, redis |-> sm_redis, store |-> sm_store]
    ELSE [raised |-> "AttributeError", ret |-> None, redis |-> sm_redis,
          store |-> sm_store]

\* MCPContextManager.__exit__: a non-empty context_history is handed to
\* store_short_memory, with no handler around the call.
MCPContextManager_exit(u, context_history, redis, uuid, now) ==
    IF context_history # <<>>
    THEN MemoryManager_store_short_memory(u, context_history, redis, uuid, now)
    ELSE [raised |-> "none", ret |-> None, redis |-> sm_redis, store |-> sm_store]

\* The end of a `with` block of the MCPContextManager of user u.
mcp_exit ==
    /\ clock < MaxWrites
    /\ \E u \in Users, context_history \in StoreLists \cup {<<>>},
          redis \in (IF sm_connected THEN {"ok", "set_fails"} ELSE {"ok"}) :
         LET r == MCPContextManager_exit(u, context_history, redis, uuids, clock + 1)
         IN  /\ sm_redis' = r.redis
             /\ sm_store' = r.store
             /\ sm_idle' = IF r.raised = "none" /\ context_history # <<>>
                            THEN Written(u, r.ret) ELSE sm_idle
             /\ uuids' = IF "store_memory" \in ShortTermMemoryBackend_methods
                          THEN uuids + Len(context_history) ELSE uuids
             /\ clock' = clock + 1
             /\ last' = [op |-> "__exit__", user_id |-> u,
                         context_history |-> context_history, redis |-> redis,
                         short_before |-> ShortLog(u), raised |-> r.raised]
    /\ UNCHANGED <<kgVars, wfVars, mirixVars, threshold, sm_connected, sm_max_memory_size, sm_calls,
                   lm_connected, lm_rows>>

InitShort ==
    /\ InitWorkflow
    /\ InitGraph
    /\ threshold = DefaultThreshold
    /\ sm_connected \in BOOLEAN
    /\ sm_max_memory_size \in Capacities
    /\ sm_calls = <<>>
    /\ sm_redis = [u \in Users |-> <<>>]
    /\ sm_store = [u \in Users |-> <<>>]
    /\ sm_idle = IdleAtStart
    /\ lm_connected = TRUE
    /\ lm_rows = <<>>
    /\ uuids = 0
    /\ clock = 0
    /\ last = [op |-> "none"]

\* A call of ShortMemory.get_memory(user_id); idle is the time since the
\* last write of the user's log.
short_get_memory ==
    /\ \E u \in Users, redis \in (IF sm_connected THEN {"ok", "get_fails"} ELSE {"ok"}) :
         last' = [op |-> "short_get_memory", user_id |-> u, redis |-> redis,
                  idle |-> sm_idle[u], short_before |-> ShortLog(u),
                  result |-> ShortMemory_get_memory(u, redis)]
    /\ UNCHANGED <<kgVars, wfVars, mirixVars, threshold, sm_connected, sm_max_memory_size, sm_calls,
                   sm_idle, sm_redis, sm_store,
                   lm_connected, lm_rows, uuids, clock>>

\* Time passes by one step.  Redis removes a key, as a whole, when the
\* lifetime that setex gave it is over; the dict _memory_store has no
\* lifetime and keeps its entries.
time_passes ==
    /\ \E u \in Users : sm_idle[u] < memory_ttl
    /\ sm_idle' = [u \in Users |-> IF sm_idle[u] < memory_ttl THEN sm_idle[u] + 1
                                    ELSE memory_ttl]
    /\ sm_redis' = [u \in Users |-> IF sm_idle'[u] = memory_ttl THEN <<>> ELSE sm_redis[u]]
    /\ last' = [op |-> "time_passes", short_before |-> [u \in Users |-> ShortLog(u)]]
    /\ UNCHANGED <<kgVars, wfVars, mirixVars, threshold, sm_connected, sm_max_memory_size, sm_calls,
                   sm_store,
                   lm_connected, lm_rows, uuids, clock>>

NextShort ==
    \/ store_memory
    \/ short_add_message
    \/ short_get_memory
    \/ time_passes

SpecShort == InitShort /\ [][NextShort]_vars

\* Contexts that are left, on a store that is also written message by
\* message.
NextContext ==
    \/ mcp_exit
    \/ short_add_message

SpecContext == InitShort /\ [][NextContext]_vars

\* type and content of the messages of a list, in order.
Contents(messages) ==
    [i \in DOMAIN messages |-> <<messages[i].type, messages[i].content>>]

\* C38: leaving a context whose context_history is not empty raises nothing
\* and leaves the short-term log of the user equal to the last
\* max_memory_size messages of context_history, in order.
C38_ExitStoresHistory ==
    (last.op = "__exit__" /\ last.context_history # <<>> /\ last.redis = "ok") =>
       /\ last.raised = "none"
       /\ Contents(ShortLog(last.user_id)) =
             Contents(LastN(last.context_history, sm_max_memory_size))

----------------------------------------------------------------------------
(* Properties of the short-term writes (SpecShort).                        *)

\* What a turn is, whatever id and timestamp it was stored under.
TurnOf(m) == [type |-> m.type, content |-> m.content]

\* C12: after every successful write the log holds at most N turns, and they
\* are the N most recently written ones in write order: a store leaves the
\* last N turns of its list, an append leaves the last N turns of the log
\* before it followed by the new turn.
C12_LogIsLastNWritten ==
    /\ \A u \in Users : Len(ShortLog(u)) <= sm_max_memory_size
    /\ (last.op = "store_memory" /\ last.short_result) =>
          MapSeq(ShortLog(last.user_id), TurnOf) =
             LastN(MapSeq(last.messages, TurnOf), sm_max_memory_size)
    /\ (last.op = "short_add_message" /\ last.short_result) =>
          MapSeq(ShortLog(last.user_id), TurnOf) =
             LastN(Append(MapSeq(last.short_before, TurnOf), TurnOf(last.message)),
                   sm_max_memory_size)

\* C22: every successful store or append starts the lifetime of the user's
\* whole log again; a get issued when memory_ttl has passed since the last
\* write of the log returns the empty list, as for a user never written;
\* and when time passes a log stays whole or is removed whole.
C22_LogExpiresWholeAfterTtl ==
    /\ (last.op \in {"store_memory", "short_add_message"} /\ last.short_result) =>
          sm_idle[last.user_id] = 0
    /\ (last.op = "short_get_memory" /\ last.idle = memory_ttl) => last.result = <<>>
    /\ last.op = "time_passes" =>
          \A u \in Users : ShortLog(u) \in {last.short_before[u], <<>>}

\* The turns a short-term write is to leave stored: the turn of an append,
\* the last max_memory_size turns of a store.
WrittenTurns ==
    IF last.op = "short_add_message" THEN <<TurnOf(last.message)>>
    ELSE LastN(MapSeq(last.messages, TurnOf), sm_max_memory_size)

\* C23: a short-term write that returned True has stored its turns, and a
\* get on the same instance returns them; on a connected instance they are
\* in Redis.  A write whose setex failed returned False and changed
\* nothing; a write of an instance that never connected went to the
\* in-process store and left Redis alone.
C23_SuccessMeansStored ==
    (last.op \in {"store_memory", "short_add_message"}) =>
       LET u   == last.user_id
           got == MapSeq(ShortMemory_get_memory(u, "ok"), TurnOf)
       IN  /\ last.short_result =>
                /\ LastN(got, Len(WrittenTurns)) = WrittenTurns
                /\ sm_connected => LastN(MapSeq(sm_redis[u], TurnOf), Len(WrittenTurns))
                                      = WrittenTurns
           /\ (sm_connected /\ last.redis = "set_fails") =>
                /\ ~last.short_result
                /\ ShortLog(u) = last.short_before
           /\ ~sm_connected =>
                /\ last.short_result
                /\ sm_redis[u] = <<>>
                /\ LastN(MapSeq(sm_store[u], TurnOf), Len(WrittenTurns)) = WrittenTurns

\* An append to a log that holds a turn, refused by Redis at the setex.
C23_SetexRefused ==
    /\ last.op = "short_add_message" /\ sm_connected /\ last.redis = "set_fails"
    /\ ~last.short_result /\ last.short_before # <<>>

----------------------------------------------------------------------------
(* The graph store (kg/kg_storage.py).  A label or a relationship type is  *)
(* a sequence of characters, so that upper() and the label pattern are     *)
(* computed.  A node and a relationship carry the properties name, note,   *)
(* created_at and updated_at; a timestamp of 0 is a null property.         *)

AsciiUpper == <<"A", "B", "C", "D", "E", "F", "G", "H", "I", "J", "K", "L", "M",
                "N", "O", "P", "Q", "R", "S", "T", "U", "V", "W", "X", "Y", "Z">>
AsciiLower == <<"a", "b", "c", "d", "e", "f", "g", "h", "i", "j", "k", "l", "m",
                "n", "o", "p", "q", "r", "s", "t", "u", "v", "w", "x", "y", "z">>
Digits     == {"0", "1", "2", "3", "4", "5", "6", "7", "8", "9"}
\* A letter outside ASCII (a CJK ideograph): it has no upper case.
Ideograph  == "U+521B"

\* str.upper() on one character, and on a string.
UpperChar(c) ==
    IF \E i \in DOMAIN AsciiLower : AsciiLower[i] = c
    THEN AsciiUpper[CHOOSE i \in DOMAIN AsciiLower : AsciiLower[i] = c]
    ELSE c

upper(str) == [i \in DOMAIN str |-> UpperChar(str[i])]

\* VALID_LABEL_PATTERN.match(label): ^[a-zA-Z][a-zA-Z0-9_]*$
VALID_LABEL_PATTERN(label) ==
    LET letters == {AsciiUpper[i] : i \in DOMAIN AsciiUpper}
                      \cup {AsciiLower[i] : i \in DOMAIN AsciiLower}
    IN  /\ label # <<>>
        /\ label[1] \in letters
        /\ \A i \in DOMAIN label : label[i] \in letters \cup Digits \cup {"_"}

\* What the Cypher parser takes as an unquoted label or relationship type
\* when the text is pasted into a query: letters of any script, digits and
\* underscores, not starting with a digit.
CypherName(label) ==
    LET letters == {AsciiUpper[i] : i \in DOMAIN AsciiUpper}
                      \cup {AsciiLower[i] : i \in DOMAIN AsciiLower} \cup {Ideograph}
    IN  /\ label # <<>>
        /\ label[1] \in letters \cup {"_"}
        /\ \A i \in DOMAIN label : label[i] \in letters \cup Digits \cup {"_"}

\* A key that a metadata dict does not have.
Missing == "missing"

NoMetadata == [name |-> Missing, note |-> Missing]

\* A metadata dict passed on with its None values.
DropNone_keeping(metadata) == metadata

\* {k: v for k, v in metadata.items() if v is not None}
DropNone(metadata) ==
    [k \in DOMAIN metadata |-> IF metadata[k] = None THEN Missing ELSE metadata[k]]

\* SET x += $metadata
SetProperties(x, metadata) ==
    LET set(old, new) == IF new = Missing THEN old
                         ELSE IF new = None THEN Missing   \* a null removes the property
                         ELSE new
    IN  [x EXCEPT !.name = set(@, metadata.name), !.note = set(@, metadata.note)]

\* SET x.updated_at = datetime(), x.created_at = coalesce(x.created_at, datetime())
Stamp(x, now) ==
    [x EXCEPT !.updated_at = now, !.created_at = IF @ = 0 THEN now ELSE @]

\* The node MERGE creates when no node matches (e:label {name: name}).
NewNode(id, label, name) ==
    [id |-> id, label |-> label, name |-> name, note |-> Missing,
     created_at |-> 0, updated_at |-> 0]

\* The relationship MERGE creates when s and o have none of this type.
NewRelationship(id, type, s, o) ==
    [id |-> <<id, s, o>>, type |-> type, s |-> s, o |-> o, name |-> Missing,
     note |-> Missing, created_at |-> 0, updated_at |-> 0]

\* MATCH (e:label {name: name})
MatchNodes(g, label, name) == {n \in g.nodes : n.label = label /\ n.name = name}

\* MATCH (e)-[r]-()
Incident(g, n) == {r \in g.rels : r.s = n.id \/ r.o = n.id}

\* How a storage call ends: the graph after it, the exception it raised, the
\* value it returned and whether a query reached the server.
KgRaise(g, e, sent) == [g |-> g, raised |-> e, ret |-> None, sent |-> sent]
KgReturn(g, ret)    == [g |-> g, raised |-> "none", ret |-> ret, sent |-> TRUE]

Neo4jOutcomes == {"ok", "Neo4jError"}

KGStorage_create_entity(g, entity_name, entity_type, metadata, neo4j, now) ==
    LET label   == upper(entity_type)
        md      == DropNone(metadata)
        matched == MatchNodes(g, label, entity_name)
        merged  == IF matched = {} THEN {NewNode(g.ids + 1, label, entity_name)}
                   ELSE matched
        after   == {Stamp(SetProperties(n, md), now) : n \in merged}
    IN  IF entity_name = "" THEN KgRaise(g, "ValueError", FALSE)
        ELSE IF ~VALID_LABEL_PATTERN(label) THEN KgRaise(g, "ValueError", FALSE)
        ELSE IF neo4j # "ok" THEN KgRaise(g, "Exception", TRUE)
        ELSE KgReturn([g EXCEPT !.nodes = (@ \ matched) \cup after, !.ids = @ + 1],
                      CHOOSE n \in after : TRUE)

KGStorage_delete_entity(g, entity_name, entity_type, delete_relationships, neo4j) ==
    LET label   == upper(entity_type)
        matched == MatchNodes(g, label, entity_name)
        \* MATCH (e)-[r]-() DELETE r WITH e MATCH (e) DELETE e: one row for
        \* each relationship of a matched node, none for a node without one.
        rows    == {<<n, r>> \in matched \X g.rels : r \in Incident(g, n)}
        gone    == {row[1] : row \in rows}
        cut     == {row[2] : row \in rows}
    IN  IF entity_name = "" \/ entity_type = <<>> THEN KgRaise(g, "ValueError", FALSE)
        ELSE IF ~VALID_LABEL_PATTERN(label) THEN KgRaise(g, "ValueError", FALSE)
        ELSE IF neo4j # "ok" THEN KgRaise(g, "Exception", TRUE)
        ELSE IF delete_relationships
             THEN KgReturn([g EXCEPT !.nodes = @ \ gone, !.rels = @ \ cut],
                           Cardinality(rows) > 0)
        \* MATCH (e) DELETE e: the server refuses to delete a node that
        \* still has relationships.
        ELSE IF \E n \in matched : Incident(g, n) # {}
             THEN KgRaise(g, "Exception", TRUE)
        ELSE KgReturn([g EXCEPT !.nodes = @ \ matched], Cardinality(matched) > 0)

\* A CREATE in place of the MERGE: no relationship is ever matched.
MatchRelationships_none(g, type, s, o) == {}

\* MERGE (s)-[r:type]->(o): the relationships of this type from s to o.
MatchRelationships(g, type, s, o) ==
    {r \in g.rels : r.type = type /\ r.s = s.id /\ r.o = o.id}

\* A create_relationship that takes an empty result for a relationship.
no_result_ignored(rows) == FALSE

\* if not result: the query returned no row.
no_result(rows) == rows = {}

KGStorage_create_relationship(g, subj_name, subj_type, rel_type, obj_name, obj_type, metadata, neo4j, now) ==
    LET s_label == upper(subj_type)
        type    == upper(rel_type)
        o_label == upper(obj_type)
        md      == DropNone(metadata)
        pairs   == MatchNodes(g, s_label, subj_name) \X MatchNodes(g, o_label, obj_name)
        have(p) == MatchRelationships(g, type, p[1], p[2])
        merged  == UNION {IF have(p) = {}
                          THEN {NewRelationship(g.ids + 1, type, p[1].id, p[2].id)}
                          ELSE have(p) : p \in pairs}
        matched == UNION {have(p) : p \in pairs}
        after   == {Stamp(SetProperties(r, md), now) : r \in merged}
    IN  IF "" \in {subj_name, obj_name} \/ <<>> \in {subj_type, rel_type, obj_type}
        THEN KgRaise(g, "ValueError", FALSE)
        ELSE IF \E l \in {s_label, type, o_label} : ~VALID_LABEL_PATTERN(l)
        THEN KgRaise(g, "ValueError", FALSE)
        ELSE IF neo4j # "ok" THEN KgRaise(g, "Exception", TRUE)
        \* no row: "subject or object does not exist"
        ELSE IF no_result(pairs) THEN KgRaise(g, "NotFound", TRUE)
        ELSE KgReturn([g EXCEPT !.rels = (@ \ matched) \cup after, !.ids = @ + 1],
                      IF after = {} THEN None ELSE CHOOSE r \in after : TRUE)

\* The graph the store holds.
Graph == [nodes |-> kg_nodes, rels |-> kg_rels, ids |-> uuids]

\* A storage call has ended with outcome out: the store holds out.g, and
\* last keeps the call, the graph before it, how it ended and the call that
\* ended before it.
KgDone(out, call) ==
    /\ kg_nodes' = out.g.nodes
    /\ kg_rels' = out.g.rels
    /\ uuids' = out.g.ids
    /\ clock' = clock + 1
    /\ last' = call @@ [before |-> Graph, raised |-> out.raised, ret |-> out.ret,
                        sent |-> out.sent,
                        prev |-> [k \in DOMAIN last \ {"before", "prev"} |-> last[k]]]
    /\ UNCHANGED <<wfVars, mirixVars, threshold, sm_connected, sm_max_memory_size, sm_calls,
                   sm_idle,
                   sm_redis, sm_store, lm_connected, lm_rows>>

\* The arguments the callers pass.
KgNames     == {"A", "B"}
EntityTypes == {<<"p">>, <<"1", "p">>}
Metadatas   == {NoMetadata, [name |-> Missing, note |-> "v1"],
                [name |-> "B", note |-> Missing], [name |-> Missing, note |-> None]}
\* subj_type, rel_type, obj_type of one call
TypeTriples == {<<(<<"p">>), (<<"r">>), (<<"p">>)>>,
                <<(<<"p">>), (<<Ideograph>>), (<<"p">>)>>,
                <<(<<"1", "p">>), (<<"r">>), (<<"p">>)>>}

create_entity ==
    /\ clock < MaxWrites
    /\ \E entity_name \in KgNames, entity_type \in EntityTypes, metadata \in Metadatas,
          neo4j \in Neo4jOutcomes :
         KgDone(KGStorage_create_entity(Graph, entity_name, entity_type, metadata,
                                        neo4j, clock + 1),
                [op |-> "create_entity", entity_name |-> entity_name,
                 entity_type |-> entity_type, metadata |-> metadata, neo4j |-> neo4j])

delete_entity ==
    /\ clock < MaxWrites
    /\ \E entity_name \in KgNames, entity_type \in EntityTypes,
          delete_relationships \in BOOLEAN, neo4j \in Neo4jOutcomes :
         KgDone(KGStorage_delete_entity(Graph, entity_name, entity_type,
                                        delete_relationships, neo4j),
                [op |-> "delete_entity", entity_name |-> entity_name,
                 entity_type |-> entity_type,
                 delete_relationships |-> delete_relationships, neo4j |-> neo4j])

create_relationship ==
    /\ clock < MaxWrites
    /\ \E subj_name \in KgNames, obj_name \in KgNames, types \in TypeTriples,
          metadata \in {NoMetadata}, neo4j \in Neo4jOutcomes :
         KgDone(KGStorage_create_relationship(Graph, subj_name, types[1], types[2],
                                              obj_name, types[3], metadata, neo4j,
                                              clock + 1),
                [op |-> "create_relationship", subj_name |-> subj_name,
                 subj_type |-> types[1], rel_type |-> types[2], obj_name |-> obj_name,
                 obj_type |-> types[3], metadata |-> metadata, neo4j |-> neo4j])

\* Graphs the store can hold when a behaviour starts: entities of type P
\* created by create_entity and relationships of type R created by
\* create_relationship, all before the clock started.
StoredNode(id, name) == Stamp(NewNode(id, <<"P">>, name), -1)
StoredRel(id, s, o)  == Stamp(NewRelationship(id, <<"R">>, s, o), -1)
StoredGraphs ==
    {[nodes |-> {}, rels |-> {}, ids |-> 0],
     [nodes |-> {StoredNode(1, "A")}, rels |-> {}, ids |-> 1],
     [nodes |-> {StoredNode(1, "A"), StoredNode(2, "B")},
      rels |-> {StoredRel(3, 1, 2)}, ids |-> 3],
     [nodes |-> {StoredNode(1, "A"), StoredNode(2, "B")},
      rels |-> {StoredRel(3, 1, 2), StoredRel(4, 2, 1)}, ids |-> 4]}

InitKG ==
    /\ InitWorkflow
    /\ threshold = DefaultThreshold
    /\ sm_connected = TRUE
    /\ sm_max_memory_size = max_memory_size
    /\ sm_calls = <<>>
    /\ sm_redis = [u \in Users |-> <<>>]
    /\ sm_store = [u \in Users |-> <<>>]
    /\ sm_idle = IdleAtStart
    /\ lm_connected = TRUE
    /\ lm_rows = <<>>
    /\ \E g \in StoredGraphs :
         /\ kg_nodes = g.nodes
         /\ kg_rels = g.rels
         /\ uuids = g.ids
    /\ clock = 0
    /\ last = [op |-> "none"]

NextKG ==
    \/ create_entity
    \/ delete_entity
    \/ create_relationship

SpecKG == InitKG /\ [][NextKG]_vars

----------------------------------------------------------------------------
(* The batch operations and import_from_triples (kg/kg_manager.py).        *)

\* The default of entity_type_map.get(entity, "Entity").
EntityDefault == <<"E", "n", "t", "i", "t", "y">>

\* entity_type_map.get(name, "Entity"); the empty type stands for a name the
\* map does not have.
TypeOf(entity_type_map, name) ==
    IF entity_type_map[name] = <<>> THEN EntityDefault ELSE entity_type_map[name]

\* The elements of a set in the order the loop over it visits them.
RECURSIVE SetToSeq(_)
SetToSeq(S) ==
    IF S = {} THEN <<>>
    ELSE LET x == CHOOSE y \in S : TRUE IN <<x>> \o SetToSeq(S \ {x})

\* A batch_create_entities that stops at the first record it cannot apply.
RECURSIVE KGStorage_batch_create_entities_aborting(_, _, _, _)
KGStorage_batch_create_entities_aborting(g, entities, neo4j, now) ==
    IF entities = <<>> THEN g
    ELSE LET entity == Head(entities)
             out    == KGStorage_create_entity(g, entity.name, upper(entity.type),
                                               entity.metadata, neo4j, now)
         IN  IF entity.name = "" \/ entity.type = <<>> \/ out.raised # "none" THEN g
             ELSE KGStorage_batch_create_entities_aborting(out.g, Tail(entities), neo4j, now)

\* KGStorage.batch_create_entities: a record without name or type is
\* skipped, and so is one whose create_entity raises.
RECURSIVE KGStorage_batch_create_entities(_, _, _, _)
KGStorage_batch_create_entities(g, entities, neo4j, now) ==
    IF entities = <<>> THEN g
    ELSE LET entity == Head(entities)
             out    == KGStorage_create_entity(g, entity.name, upper(entity.type),
                                               entity.metadata, neo4j, now)
             next   == IF entity.name = "" \/ entity.type = <<>> THEN g
                       ELSE IF out.raised # "none" THEN g
                       ELSE out.g
         IN  KGStorage_batch_create_entities(next, Tail(entities), neo4j, now)

required_fields == {"subj_name", "subj_type", "rel_type", "obj_name", "obj_type"}

\* KGStorage.batch_create_relationships: a record without one of the
\* required fields is skipped, and so is one whose create_relationship raises.
RECURSIVE KGStorage_batch_create_relationships(_, _, _, _)
KGStorage_batch_create_relationships(g, relationships, neo4j, now) ==
    IF relationships = <<>> THEN g
    ELSE LET rel  == Head(relationships)
             out  == KGStorage_create_relationship(g, rel.subj_name, upper(rel.subj_type),
                        upper(rel.rel_type), rel.obj_name, upper(rel.obj_type),
                        rel.metadata, neo4j, now)
             next == IF ~(required_fields \subseteq DOMAIN rel) THEN g
                     ELSE IF out.raised # "none" THEN g
                     ELSE out.g
         IN  KGStorage_batch_create_relationships(next, Tail(relationships), neo4j, now)

\* KGManager.import_from_triples.  A triple is <<subject, predicate, object>>.
\* neo4j is how the server answers the queries of this call.
KGManager_import_from_triples(g, triples, entity_type_map, neo4j, now) ==
    LET entities    == {triples[i][1] : i \in DOMAIN triples}
                          \cup {triples[i][3] : i \in DOMAIN triples}
        entity_list == MapSeq(SetToSeq(entities),
                              LAMBDA e : [name |-> e, type |-> TypeOf(entity_type_map, e),
                                          metadata |-> NoMetadata])
        relationship_list ==
            MapSeq(triples,
                   LAMBDA t : [subj_name |-> t[1],
                               subj_type |-> TypeOf(entity_type_map, t[1]),
                               rel_type  |-> t[2],
                               obj_name  |-> t[3],
                               obj_type  |-> TypeOf(entity_type_map, t[3]),
                               metadata  |-> NoMetadata])
        g1 == KGStorage_batch_create_entities(g, entity_list, neo4j, now)
        g2 == KGStorage_batch_create_relationships(g1, relationship_list, neo4j, now)
    IN  [g |-> g2, raised |-> "none", ret |-> TRUE, sent |-> triples # <<>>]

\* The arguments of the import calls.
TripleLists ==
    {<< <<"A", (<<"r">>), "B">> >>,
     << <<"A", (<<"r">>), "B">>, <<"B", (<<"r">>), "A">> >>,
     << <<"A", (<<"r">>), "B">>, <<"A", (<<"r">>), "B">> >>,
     << <<"A", (<<Ideograph>>), "B">> >>}
TypeMaps ==
    {[n \in KgNames |-> <<>>],
     [n \in KgNames |-> IF n = "A" THEN <<"p">> ELSE <<>>]}

import_from_triples ==
    /\ clock < MaxWrites
    /\ \E triples \in TripleLists, entity_type_map \in TypeMaps, neo4j \in Neo4jOutcomes :
         KgDone(KGManager_import_from_triples(Graph, triples, entity_type_map, neo4j,
                                              clock + 1),
                [op |-> "import_from_triples", triples |-> triples,
                 entity_type_map |-> entity_type_map, neo4j |-> neo4j])

NextImport ==
    \/ import_from_triples
    \/ create_relationship

SpecImport == InitKG /\ [][NextImport]_vars

----------------------------------------------------------------------------
(* The batch operations called on the store itself (SpecBatch).            *)

EntityRecord(name, type) == [name |-> name, type |-> type, metadata |-> NoMetadata]

RelationshipRecord(s, rel_type, o) ==
    [subj_name |-> s, subj_type |-> <<"p">>, rel_type |-> rel_type,
     obj_name |-> o, obj_type |-> <<"p">>, metadata |-> NoMetadata]

\* Lists of entity records: a record without a name, or with a type that is
\* no label, stands before a record that can be applied.
EntityLists ==
    {<<>>,
     <<EntityRecord("A", <<"p">>), EntityRecord("B", <<"p">>)>>,
     <<EntityRecord("", <<"p">>), EntityRecord("B", <<"p">>)>>,
     <<EntityRecord("A", <<"1", "p">>), EntityRecord("A", <<"p">>)>>}

\* Lists of relationship records: a record without obj_type, with a type
\* that is no label, or with an object that may not exist, stands before a
\* record from A to itself.
RelationshipLists ==
    {<<>>,
     <<[subj_name |-> "A", subj_type |-> <<"p">>, rel_type |-> <<"r">>, obj_name |-> "B"],
       RelationshipRecord("A", <<"r">>, "A")>>,
     <<RelationshipRecord("A", <<Ideograph>>, "B"), RelationshipRecord("A", <<"r">>, "A")>>,
     <<RelationshipRecord("A", <<"r">>, "B"), RelationshipRecord("A", <<"r">>, "A")>>}

\* if not isinstance(..., list) or len(...) == 0: raise ValueError; the
\* return value is the list of results, here the graph they leave.
BatchCall(list, g) ==
    IF list = <<>> THEN KgRaise(Graph, "ValueError", FALSE)
    ELSE [g |-> g, raised |-> "none", ret |-> TRUE, sent |-> TRUE]

batch_create_entities ==
    /\ clock < MaxWrites
    /\ \E entities \in EntityLists, neo4j \in Neo4jOutcomes :
         KgDone(BatchCall(entities,
                          KGStorage_batch_create_entities(Graph, entities, neo4j, clock + 1)),
                [op |-> "batch_create_entities", entities |-> entities, neo4j |-> neo4j])

batch_create_relationships ==
    /\ clock < MaxWrites
    /\ \E relationships \in RelationshipLists, neo4j \in Neo4jOutcomes :
         KgDone(BatchCall(relationships,
                          KGStorage_batch_create_relationships(Graph, relationships, neo4j,
                                                               clock + 1)),
                [op |-> "batch_create_relationships", relationships |-> relationships,
                 neo4j |-> neo4j])

NextBatch ==
    \/ batch_create_entities
    \/ batch_create_relationships

SpecBatch == InitKG /\ [][NextBatch]_vars

\* A record create_entity accepts, and one create_relationship accepts in
\* graph g.
ValidEntity(entity) ==
    /\ entity.name # "" /\ entity.type # <<>>
    /\ VALID_LABEL_PATTERN(upper(entity.type))
ValidRelationship(rel, g) ==
    /\ required_fields \subseteq DOMAIN rel
    /\ \A f \in {"subj_type", "rel_type", "obj_type"} : VALID_LABEL_PATTERN(upper(rel[f]))
    /\ MatchNodes(g, upper(rel.subj_type), rel.subj_name) # {}
    /\ MatchNodes(g, upper(rel.obj_type), rel.obj_name) # {}

\* C26: when a batch call returns and the server answered its queries,
\* every record of the list that can be applied has been applied, whatever
\* stands before it: its entity, or its relationship, is in the graph.
C26_BatchAppliesEveryValidRecord ==
    /\ (last.op = "batch_create_entities" /\ last.raised = "none" /\ last.neo4j = "ok") =>
          \A i \in DOMAIN last.entities :
             LET entity == last.entities[i]
             IN  ValidEntity(entity) =>
                    MatchNodes(Graph, upper(entity.type), entity.name) # {}
    /\ (last.op = "batch_create_relationships" /\ last.raised = "none"
            /\ last.neo4j = "ok") =>
          \A i \in DOMAIN last.relationships :
             LET rel == last.relationships[i]
             IN  ValidRelationship(rel, last.before) =>
                    \E s \in MatchNodes(Graph, upper(rel.subj_type), rel.subj_name),
                       o \in MatchNodes(Graph, upper(rel.obj_type), rel.obj_name) :
                          MatchRelationships(Graph, upper(rel.rel_type), s, o) # {}

\* A batch whose first record was refused and whose second was applied.
C26_RecordAfterInvalidApplied ==
    /\ last.op = "batch_create_entities" /\ last.raised = "none" /\ last.neo4j = "ok"
    /\ ~ValidEntity(last.entities[1]) /\ ValidEntity(last.entities[2])
    /\ MatchNodes(last.before, upper(last.entities[2].type), last.entities[2].name) = {}
    /\ MatchNodes(Graph, upper(last.entities[2].type), last.entities[2].name) # {}

----------------------------------------------------------------------------
(* KGStorage.get_relationships (SpecKGRead).  An omitted name is None, an  *)
(* omitted type the empty string, an omitted property Missing.             *)

\* The node with this id.
NodeOf(g, id) == CHOOSE n \in g.nodes : n.id = id

\* self._validate_label(label) as the condition of a conditional
\* expression: the method returns None when the label is valid.
validate_label_value(label) == FALSE

\* f":{type}" if type and self._validate_label(type) else "": the label the
\* pattern of the query names, or the empty string.
LabelClause(type) == IF type # <<>> /\ validate_label_value(type) THEN type ELSE <<>>

\* The lists get_relationships may return, as sets of relationships: LIMIT
\* without ORDER BY keeps any limit of the rows.
KGStorage_get_relationships(g, subj_name, subj_type, rel_type, obj_name, obj_type, metadata, limit, neo4j) ==
    LET subj_label == LabelClause(upper(subj_type))
        obj_label  == LabelClause(upper(obj_type))
        rel_clause == LabelClause(upper(rel_type))
        \* MATCH (s{subj_label})-[r{rel_clause}]->(o{obj_label}) WHERE ...
        rows == {r \in g.rels :
                   /\ subj_label # <<>> => NodeOf(g, r.s).label = subj_label
                   /\ rel_clause # <<>> => r.type = rel_clause
                   /\ obj_label # <<>> => NodeOf(g, r.o).label = obj_label
                   /\ subj_name # None => NodeOf(g, r.s).name = subj_name
                   /\ obj_name # None => NodeOf(g, r.o).name = obj_name
                   /\ \A k \in DOMAIN metadata :
                         metadata[k] \notin {None, Missing} => r[k] = metadata[k]}
        kept == IF Cardinality(rows) <= limit THEN {rows}
                ELSE {R \in SUBSET rows : Cardinality(R) = limit}
    IN  IF \E t \in {subj_type, rel_type, obj_type} :
              t # <<>> /\ ~VALID_LABEL_PATTERN(upper(t))
        THEN {[raised |-> "ValueError", ret |-> {}]}
        ELSE IF neo4j # "ok" THEN {[raised |-> "Exception", ret |-> {}]}
        ELSE {[raised |-> "none", ret |-> R] : R \in kept}

\* The filters of the calls.
NameFilters == {None, "A"}
TypeFilters == {<<>>, <<"p">>, <<"q">>}
RelTypeFilters == {<<>>, <<"r">>, <<"q">>, <<Ideograph>>}

get_relationships ==
    /\ \E subj_name \in NameFilters, subj_type \in TypeFilters, rel_type \in RelTypeFilters,
          obj_name \in NameFilters, metadata \in {NoMetadata, [name |-> Missing, note |-> "v1"]},
          limit \in 1..MaxLimit, neo4j \in Neo4jOutcomes :
         \E out \in KGStorage_get_relationships(Graph, subj_name, subj_type, rel_type,
                                                obj_name, <<>>, metadata, limit, neo4j) :
            last' = [op |-> "get_relationships", subj_name |-> subj_name,
                     subj_type |-> subj_type, rel_type |-> rel_type, obj_name |-> obj_name,
                     obj_type |-> <<>>, metadata |-> metadata, limit |-> limit,
                     neo4j |-> neo4j, raised |-> out.raised, ret |-> out.ret]
    /\ UNCHANGED <<kgVars, wfVars, mirixVars, threshold, sm_connected, sm_max_memory_size, sm_calls,
                   sm_idle, sm_redis, sm_store,
                   lm_connected, lm_rows, uuids, clock>>

NextKGRead == get_relationships

SpecKGRead == InitKG /\ [][NextKGRead]_vars

\* The relationships of the graph that satisfy every filter of the call
\* that just returned.
Satisfying ==
    {r \in kg_rels :
       /\ last.subj_name # None => NodeOf(Graph, r.s).name = last.subj_name
       /\ last.subj_type # <<>> => NodeOf(Graph, r.s).label = upper(last.subj_type)
       /\ last.rel_type # <<>> => r.type = upper(last.rel_type)
       /\ last.obj_name # None => NodeOf(Graph, r.o).name = last.obj_name
       /\ last.obj_type # <<>> => NodeOf(Graph, r.o).label = upper(last.obj_type)
       /\ \A k \in DOMAIN last.metadata :
             last.metadata[k] \notin {None, Missing} => r[k] = last.metadata[k]}

\* C27: get_relationships returns only relationships that satisfy every
\* filter it was given, and all of them up to limit.
C27_EveryFilterApplied ==
    (last.op = "get_relationships" /\ last.raised = "none") =>
       /\ last.ret \subseteq Satisfying
       /\ Cardinality(last.ret) =
             IF Cardinality(Satisfying) <= last.limit THEN Cardinality(Satisfying)
             ELSE last.limit

----------------------------------------------------------------------------
(* KGManager.get_relationships, the read behind the kg_get_entity tool     *)
(* (SpecKGManagerRead).                                                    *)

\* limit: int = 100 of KGStorage.get_relationships.
DefaultLimit == 100

Directions == {"both", "out", "in"}

\* self.storage.get_relationships(entity_name, entity_type, rel_type,
\* direction): four positional arguments, which the storage method takes as
\* subj_name, subj_type, rel_type and obj_name.  Any exception is logged and
\* the empty list returned.
KGManager_get_relationships(g, entity_name, entity_type, rel_type, direction, neo4j) ==
    {IF out.raised = "none" THEN out.ret ELSE {} :
        out \in KGStorage_get_relationships(g, entity_name, entity_type, rel_type,
                                            direction, <<>>, NoMetadata, DefaultLimit,
                                            neo4j)}

\* tools.kg_manager.get_relationships(name, entity_type) of the kg_get_entity
\* tool, and the calls that name a relationship type or a direction.
manager_get_relationships ==
    /\ \E entity_name \in KgNames, entity_type \in TypeFilters, rel_type \in RelTypeFilters,
          direction \in Directions, neo4j \in Neo4jOutcomes :
         \E ret \in KGManager_get_relationships(Graph, entity_name, entity_type, rel_type,
                                                direction, neo4j) :
            last' = [op |-> "manager_get_relationships", entity_name |-> entity_name,
                     entity_type |-> entity_type, rel_type |-> rel_type,
                     direction |-> direction, neo4j |-> neo4j, ret |-> ret]
    /\ UNCHANGED <<kgVars, wfVars, mirixVars, threshold, sm_connected, sm_max_memory_size, sm_calls,
                   sm_idle, sm_redis, sm_store,
                   lm_connected, lm_rows, uuids, clock>>

NextKGManagerRead == manager_get_relationships

SpecKGManagerRead == InitKG /\ [][NextKGManagerRead]_vars

\* The relationships of the graph in which a node with this name is the
\* subject or the object.
RelationshipsOf(g, entity_name) ==
    {r \in g.rels : entity_name \in {NodeOf(g, r.s).name, NodeOf(g, r.o).name}}

\* C37: with direction "both" and no other filter, get_relationships of the
\* manager returns every relationship in which the named entity is the
\* subject or the object.
C37_BothDirectionsReturned ==
    (/\ last.op = "manager_get_relationships" /\ last.direction = "both"
     /\ last.entity_type = <<>> /\ last.rel_type = <<>> /\ last.neo4j = "ok") =>
        last.ret = RelationshipsOf(Graph, last.entity_name)

----------------------------------------------------------------------------
(* The other graph writes: update_entity, update_relationship and          *)
(* delete_relationship of KGStorage, create_knowledge_triple of KGManager. *)

KGStorage_update_entity(g, entity_name, entity_type, metadata, upsert, neo4j, now) ==
    LET label   == upper(entity_type)
        md      == DropNone(metadata)
        matched == MatchNodes(g, label, entity_name)
        \* MERGE when upsert, MATCH otherwise
        merged  == IF matched = {} /\ upsert THEN {NewNode(g.ids + 1, label, entity_name)}
                   ELSE matched
        \* SET e += $metadata, e.updated_at = datetime(), and with upsert
        \* SET e.created_at = datetime()
        set(n)  == [SetProperties(n, md) EXCEPT !.updated_at = now,
                                                !.created_at = IF upsert THEN now ELSE @]
        after   == {set(n) : n \in merged}
    IN  IF entity_name = "" \/ entity_type = <<>> THEN KgRaise(g, "ValueError", FALSE)
        ELSE IF ~VALID_LABEL_PATTERN(label) THEN KgRaise(g, "ValueError", FALSE)
        ELSE IF metadata = NoMetadata THEN KgRaise(g, "ValueError", FALSE)
        ELSE IF neo4j # "ok" THEN KgRaise(g, "Exception", TRUE)
        ELSE KgReturn([g EXCEPT !.nodes = (@ \ matched) \cup after, !.ids = @ + 1],
                      IF after = {} THEN None ELSE CHOOSE n \in after : TRUE)

\* MATCH (s:subj_type {name})-[r:rel_type]->(o:obj_type {name}), the three
\* labels pasted into the query as they are.
MatchPattern(g, subj_name, s_label, type, obj_name, o_label) ==
    UNION {MatchRelationships(g, type, p[1], p[2]) :
             p \in MatchNodes(g, s_label, subj_name) \X MatchNodes(g, o_label, obj_name)}

KGStorage_update_relationship(g, subj_name, subj_type, rel_type, obj_name, obj_type, metadata, neo4j, now) ==
    LET s_label == upper(subj_type)
        type    == upper(rel_type)
        o_label == upper(obj_type)
        md      == DropNone(metadata)
        matched == MatchPattern(g, subj_name, s_label, type, obj_name, o_label)
        after   == {[SetProperties(r, md) EXCEPT !.updated_at = now] : r \in matched}
    IN  IF metadata = NoMetadata THEN KgRaise(g, "ValueError", FALSE)
        \* the server rejects a query whose labels do not parse
        ELSE IF \E l \in {s_label, type, o_label} : ~CypherName(l)
        THEN KgRaise(g, "Exception", TRUE)
        ELSE IF neo4j # "ok" THEN KgRaise(g, "Exception", TRUE)
        ELSE IF no_result(matched) THEN KgRaise(g, "NotFound", TRUE)
        ELSE KgReturn([g EXCEPT !.rels = (@ \ matched) \cup after],
                      CHOOSE r \in after : TRUE)

KGStorage_delete_relationship(g, subj_name, subj_type, rel_type, obj_name, obj_type, neo4j) ==
    LET s_label == upper(subj_type)
        type    == upper(rel_type)
        o_label == upper(obj_type)
        matched == MatchPattern(g, subj_name, s_label, type, obj_name, o_label)
    IN  IF \E l \in {s_label, type, o_label} : ~CypherName(l)
        THEN KgRaise(g, "Exception", TRUE)
        ELSE IF neo4j # "ok" THEN KgRaise(g, "Exception", TRUE)
        ELSE KgReturn([g EXCEPT !.rels = @ \ matched], Cardinality(matched) > 0)

\* KGManager.create_knowledge_triple: one query that MERGEs both entities and
\* the relationship, with the types pasted in as given; every exception ends
\* in the result False.
KGManager_create_knowledge_triple(g, subject, predicate, object, subj_type, obj_type, properties, neo4j, now) ==
    LET s_found == MatchNodes(g, subj_type, subject)
        s_nodes == IF s_found = {} THEN {NewNode(g.ids + 1, subj_type, subject)}
                   ELSE s_found
        g1      == [g EXCEPT !.nodes = @ \cup s_nodes]
        o_found == MatchNodes(g1, obj_type, object)
        o_nodes == IF o_found = {} THEN {NewNode(g.ids + 2, obj_type, object)}
                   ELSE o_found
        g2      == [g1 EXCEPT !.nodes = @ \cup o_nodes]
        pairs   == s_nodes \X o_nodes
        have(p) == MatchRelationships(g2, predicate, p[1], p[2])
        merged  == UNION {IF have(p) = {}
                          THEN {NewRelationship(g.ids + 3, predicate, p[1].id, p[2].id)}
                          ELSE have(p) : p \in pairs}
        matched == UNION {have(p) : p \in pairs}
        after   == {Stamp(SetProperties(r, properties), now) : r \in merged}
    IN  IF \E l \in {subj_type, predicate, obj_type} : ~CypherName(l)
        THEN [g |-> g, raised |-> "none", ret |-> FALSE, sent |-> TRUE]
        ELSE IF neo4j # "ok"
        THEN [g |-> g, raised |-> "none", ret |-> FALSE, sent |-> TRUE]
        ELSE KgReturn([g2 EXCEPT !.rels = (@ \ matched) \cup after, !.ids = @ + 3], TRUE)

update_entity ==
    /\ clock < MaxWrites
    /\ \E entity_name \in KgNames, entity_type \in EntityTypes,
          metadata \in {NoMetadata, [name |-> Missing, note |-> "v2"]},
          upsert \in BOOLEAN, neo4j \in Neo4jOutcomes :
         KgDone(KGStorage_update_entity(Graph, entity_name, entity_type, metadata,
                                        upsert, neo4j, clock + 1),
                [op |-> "update_entity", entity_name |-> entity_name,
                 entity_type |-> entity_type, metadata |-> metadata,
                 upsert |-> upsert, neo4j |-> neo4j])

update_relationship ==
    /\ clock < MaxWrites
    /\ \E subj_name \in KgNames, obj_name \in KgNames, types \in TypeTriples,
          metadata \in {[name |-> Missing, note |-> "v2"]}, neo4j \in Neo4jOutcomes :
         KgDone(KGStorage_update_relationship(Graph, subj_name, types[1], types[2],
                                              obj_name, types[3], metadata, neo4j,
                                              clock + 1),
                [op |-> "update_relationship", subj_name |-> subj_name,
                 subj_type |-> types[1], rel_type |-> types[2], obj_name |-> obj_name,
                 obj_type |-> types[3], metadata |-> metadata, neo4j |-> neo4j])

delete_relationship ==
    /\ clock < MaxWrites
    /\ \E subj_name \in KgNames, obj_name \in KgNames, types \in TypeTriples,
          neo4j \in Neo4jOutcomes :
         KgDone(KGStorage_delete_relationship(Graph, subj_name, types[1], types[2],
                                              obj_name, types[3], neo4j),
                [op |-> "delete_relationship", subj_name |-> subj_name,
                 subj_type |-> types[1], rel_type |-> types[2], obj_name |-> obj_name,
                 obj_type |-> types[3], neo4j |-> neo4j])

\* subj_type, predicate, obj_type of one create_knowledge_triple call: the
\* defaults, the types as create_entity takes them, the stored types, a
\* predicate outside ASCII, a type that starts with a digit.
TripleTypes == {<<EntityDefault, (<<"r">>), EntityDefault>>,
                <<(<<"p">>), (<<"r">>), (<<"p">>)>>,
                <<(<<"P">>), (<<"R">>), (<<"P">>)>>,
                <<(<<"P">>), (<<Ideograph>>), (<<"P">>)>>,
                <<(<<"1", "p">>), (<<"r">>), (<<"P">>)>>}

create_knowledge_triple ==
    /\ clock < MaxWrites
    /\ \E subject \in KgNames, object \in KgNames, types \in TripleTypes,
          neo4j \in Neo4jOutcomes :
         KgDone(KGManager_create_knowledge_triple(Graph, subject, types[2], object,
                                                  types[1], types[3], NoMetadata, neo4j,
                                                  clock + 1),
                [op |-> "create_knowledge_triple", subj_name |-> subject,
                 subj_type |-> types[1], rel_type |-> types[2], obj_name |-> object,
                 obj_type |-> types[3], neo4j |-> neo4j])

NextKGWrite ==
    \/ create_entity
    \/ update_entity
    \/ delete_entity
    \/ create_relationship
    \/ update_relationship
    \/ delete_relationship
    \/ create_knowledge_triple

SpecKGWrite == InitKG /\ [][NextKGWrite]_vars

----------------------------------------------------------------------------
(* Properties of the graph store (SpecKG).                                 *)

\* The call that just returned repeats the call before it: the same
\* operation with the same arguments, both without an exception.
RepeatsCall(op, args) ==
    /\ last.op = op /\ last.raised = "none"
    /\ last.prev.op = op /\ last.prev.raised = "none"
    /\ \A k \in args : last[k] = last.prev[k]

\* C13: when create_entity(n, t, p) returns for the second time with the same
\* arguments, the graph holds exactly one entity (n, t), no node was added by
\* the second call, and that entity has the created_at it had after the first
\* call and a later updated_at.
C13_SecondCreateEntityMerges ==
    RepeatsCall("create_entity", {"entity_name", "entity_type", "metadata"}) =>
        LET now    == MatchNodes(Graph, upper(last.entity_type), last.entity_name)
            before == MatchNodes(last.before, upper(last.entity_type), last.entity_name)
        IN  /\ Cardinality(now) = 1
            /\ Cardinality(kg_nodes) = Cardinality(last.before.nodes)
            /\ \A n \in now : \E b \in before :
                 /\ b.id = n.id
                 /\ n.created_at = b.created_at
                 /\ n.updated_at > b.updated_at

\* C25: when create_entity returns for an entity that existed, a property
\* that came in as None or did not come in has the value it had, a property
\* that came in with a value has that value, and id, label and created_at
\* are the ones before.
C25_NullPropertiesDropped ==
    (last.op = "create_entity" /\ last.raised = "none") =>
       \A b \in MatchNodes(last.before, upper(last.entity_type), last.entity_name) :
          \E n \in kg_nodes :
             /\ n.id = b.id /\ n.label = b.label /\ n.created_at = b.created_at
             /\ \A k \in {"name", "note"} :
                   n[k] = IF last.metadata[k] \in {None, Missing} THEN b[k]
                          ELSE last.metadata[k]

\* create_entity with note None for an entity whose note has a value.
C25_NullNoteOnStoredNote ==
    /\ last.op = "create_entity" /\ last.raised = "none"
    /\ last.metadata.note = None
    /\ \E b \in MatchNodes(last.before, upper(last.entity_type), last.entity_name) :
          b.note = "v1"

\* C31: when create_entity or update_entity returns for an entity that
\* existed with a created_at, the entity has that created_at after the call,
\* and an updated_at that is not earlier.
C31_CreatedAtNeverChanges ==
    (last.op \in {"create_entity", "update_entity"} /\ last.raised = "none") =>
       \A b \in MatchNodes(last.before, upper(last.entity_type), last.entity_name) :
          b.created_at # 0 =>
             \E n \in kg_nodes :
                /\ n.id = b.id
                /\ n.created_at = b.created_at
                /\ n.updated_at >= b.updated_at

\* The call that just returned and the call before it are create_entity(n, t)
\* and create_knowledge_triple with subject n and subject type t, in the
\* order first, second, and both succeeded.
WritePaths(first, second) ==
    /\ last.op = second /\ last.prev.op = first
    /\ LET e == IF first = "create_entity" THEN last.prev ELSE last
           t == IF first = "create_entity" THEN last ELSE last.prev
       IN  /\ e.raised = "none" /\ e.metadata = NoMetadata
           /\ t.raised = "none" /\ t.ret = TRUE
           /\ e.entity_name = t.subj_name /\ e.entity_type = t.subj_type

\* C32: after create_entity(n, t) and create_knowledge_triple with subject n
\* and subject type t, in either order, the graph holds exactly one entity
\* named n of type t, whatever the case of the letters of its label, and a
\* relationship of the triple leaves that entity.
C32_OneEntityOnBothWritePaths ==
    (\/ WritePaths("create_entity", "create_knowledge_triple")
     \/ WritePaths("create_knowledge_triple", "create_entity")) =>
       LET t    == IF last.op = "create_entity" THEN last.prev ELSE last
           ents == {n \in kg_nodes : n.name = t.subj_name
                                      /\ upper(n.label) = upper(t.subj_type)}
       IN  /\ Cardinality(ents) = 1
           /\ \A n \in ents : \E r \in kg_rels :
                 r.s = n.id /\ upper(r.type) = upper(t.rel_type)

\* An endpoint of the create_relationship call that just ended did not exist
\* when it was made.
EndpointMissing ==
    \/ MatchNodes(last.before, upper(last.subj_type), last.subj_name) = {}
    \/ MatchNodes(last.before, upper(last.obj_type), last.obj_name) = {}

\* C14: a create_relationship call whose subject or object entity does not
\* exist ends with the not-found exception when its labels are valid and the
\* server answers, with some exception otherwise, and in every case the graph
\* has the nodes and the relationships it had before the call.
C14_MissingEndpointRaisesNotFound ==
    (last.op = "create_relationship" /\ EndpointMissing) =>
        /\ last.raised # "none"
        /\ kg_nodes = last.before.nodes
        /\ kg_rels = last.before.rels
        /\ (/\ last.neo4j = "ok"
            /\ \A l \in {last.subj_type, last.rel_type, last.obj_type} :
                  VALID_LABEL_PATTERN(upper(l)))
              => last.raised = "NotFound"

\* A call for A -> B reached the server while only A existed.
C14_OnlySubjectExists ==
    /\ last.op = "create_relationship" /\ EndpointMissing
    /\ last.raised = "NotFound"
    /\ last.before.nodes # {}
    /\ last.subj_name # last.obj_name

\* C18: a delete_entity(name, type, delete_relationships = True) call that the
\* server answers, made when the entity (name, type) exists, returns True and
\* leaves no entity (name, type) and no relationship that was incident to it,
\* whatever the number of its relationships.
C18_CascadeDeleteRemovesEntity ==
    LET existed == MatchNodes(last.before, upper(last.entity_type), last.entity_name)
    IN  (/\ last.op = "delete_entity" /\ last.delete_relationships
         /\ last.neo4j = "ok" /\ existed # {}) =>
            /\ last.raised = "none" /\ last.ret = TRUE
            /\ MatchNodes(Graph, upper(last.entity_type), last.entity_name) = {}
            /\ \A n \in existed : Incident(Graph, n) = {}

----------------------------------------------------------------------------
(* Properties of import_from_triples (SpecImport).                         *)

\* The graph holds triple t under the entity types of the map: both entities
\* and a relationship of the predicate's type from the subject to the object.
TriplePresent(t, entity_type_map) ==
    \E s \in MatchNodes(Graph, upper(TypeOf(entity_type_map, t[1])), t[1]),
       o \in MatchNodes(Graph, upper(TypeOf(entity_type_map, t[3])), t[3]) :
         \E r \in kg_rels : r.type = upper(t[2]) /\ r.s = s.id /\ r.o = o.id

\* C15: when import_from_triples returns True, every triple of its input has
\* both endpoint entities and its relationship in the graph.
C15_ImportedTriplesPresent ==
    (last.op = "import_from_triples" /\ last.ret = TRUE) =>
        \A i \in DOMAIN last.triples : TriplePresent(last.triples[i], last.entity_type_map)

\* The (name, label) identities that more than one node of the graph has,
\* and the (subject, type, object) triples that more than one relationship has.
DuplicateEntities ==
    {<<n.name, n.label>> : n \in {m \in kg_nodes :
        \E k \in kg_nodes : k.id # m.id /\ k.name = m.name /\ k.label = m.label}}
DuplicateRelationships ==
    {<<r.s, r.type, r.o>> : r \in {q \in kg_rels :
        \E k \in kg_rels : k.id # q.id /\ k.s = q.s /\ k.type = q.type /\ k.o = q.o}}

\* C16: when import_from_triples, or create_relationship, returns for the
\* second time with the same arguments, the graph has as many entities and as
\* many relationships as before the second call, no two entities with one
\* (name, type) and no two relationships with one (subject, type, object).
C16_RepeatedWriteConverges ==
    (\/ (RepeatsCall("import_from_triples", {"triples", "entity_type_map"})
            /\ last.neo4j = "ok" /\ last.prev.neo4j = "ok")
     \/ RepeatsCall("create_relationship",
                    {"subj_name", "subj_type", "rel_type", "obj_name", "obj_type"})) =>
        /\ Cardinality(kg_nodes) = Cardinality(last.before.nodes)
        /\ Cardinality(kg_rels) = Cardinality(last.before.rels)
        /\ DuplicateEntities = {}
        /\ DuplicateRelationships = {}

\* An import of two triples that created entities and relationships was
\* repeated.
C16_ImportRepeated ==
    /\ RepeatsCall("import_from_triples", {"triples", "entity_type_map"})
    /\ last.neo4j = "ok" /\ last.prev.neo4j = "ok"
    /\ Len(last.triples) = 2
    /\ Cardinality(kg_rels) >= 2
    /\ Cardinality(kg_nodes) >= 2

----------------------------------------------------------------------------
(* Properties of the graph writes together (SpecKGWrite).                  *)

\* The entity types and the relationship type the call that just ended was
\* given.
GivenTypes ==
    IF last.op \in {"create_entity", "update_entity", "delete_entity"}
    THEN {last.entity_type}
    ELSE {last.subj_type, last.rel_type, last.obj_type}

\* C17: a graph write that was given an entity type or a relationship type
\* outside ^[A-Za-z][A-Za-z0-9_]*$ fails (raises, or returns False from the
\* manager), sends no query, and leaves the nodes and the relationships of
\* the graph as they were.
C17_InvalidLabelFailsBeforeQuery ==
    (last.op # "none" /\ \E l \in GivenTypes : ~VALID_LABEL_PATTERN(l)) =>
        /\ IF last.op = "create_knowledge_triple" THEN last.ret = FALSE
           ELSE last.raised # "none"
        /\ last.sent = FALSE
        /\ kg_nodes = last.before.nodes
        /\ kg_rels = last.before.rels

----------------------------------------------------------------------------
(* ShortMemory.add_message called by concurrent invocations               *)
(* (memory/shortmemory.py).  The call reads the list with one request and *)
(* writes the new list with another; nothing holds the key in between.    *)

MaxInvocations == 2   \* invocations that append at the same time

Invocations == 1..MaxInvocations

\* The turn invocation p appends.
TurnOfInvocation(p) ==
    [message_id |-> Absent, type |-> "human",
     content |-> IF p = 1 THEN "hello" ELSE IF p = 2 THEN "I like cats" ELSE "thanks"]

\* existing_messages = self.get_memory(user_id)
add_message_read(p) ==
    /\ sm_calls[p].pc = "called"
    /\ \E u \in Users, redis \in ReadRedisOutcomes :
         sm_calls' = [sm_calls EXCEPT ![p] =
                        [pc |-> "read", user_id |-> u, redis_get |-> redis,
                         existing_messages |-> ShortMemory_get_memory(u, redis)]]
    /\ UNCHANGED <<kgVars, wfVars, mirixVars, threshold, sm_connected, sm_max_memory_size,
                   sm_idle, sm_redis, sm_store, lm_connected, lm_rows, uuids, clock, last>>

\* The rest of the call: append, cut to max_memory_size, setex, return.
add_message_write(p) ==
    /\ sm_calls[p].pc = "read"
    /\ \E redis \in {"ok", "set_fails"} :
         LET call == sm_calls[p]
             out  == ShortMemory_append(call.user_id, call.existing_messages,
                                        TurnOfInvocation(p), redis, uuids + 1, clock + 1)
         IN  /\ sm_redis' = out.redis
             /\ sm_store' = out.store
             /\ sm_idle' = Written(call.user_id, out.ok)
             /\ sm_calls' = [sm_calls EXCEPT ![p] =
                               [pc |-> "returned", user_id |-> call.user_id,
                                redis_get |-> call.redis_get,
                                existing_messages |-> call.existing_messages,
                                result |-> out.ok]]
    /\ uuids' = uuids + 1
    /\ clock' = clock + 1
    /\ UNCHANGED <<kgVars, wfVars, mirixVars, threshold, sm_connected, sm_max_memory_size,
                   lm_connected, lm_rows, last>>

\* Every invocation has called add_message; alice's log is empty or holds
\* one earlier turn.
InitConcurrent ==
    /\ InitWorkflow
    /\ InitGraph
    /\ threshold = DefaultThreshold
    /\ sm_connected \in BOOLEAN
    /\ sm_max_memory_size \in {MaxInvocations, max_memory_size}
    /\ sm_calls = [p \in Invocations |-> [pc |-> "called"]]
    /\ \E log \in {<<>>, <<[message_id |-> 101, type |-> "ai",
                           content |-> "reply of the model", timestamp |-> 0,
                           importance_score |-> 0]>>} :
         /\ sm_redis = [u \in Users |-> IF sm_connected /\ u = "alice" THEN log ELSE <<>>]
         /\ sm_store = [u \in Users |-> IF ~sm_connected /\ u = "alice" THEN log ELSE <<>>]
    /\ sm_idle = IdleAtStart
    /\ lm_connected = TRUE
    /\ lm_rows = <<>>
    /\ uuids = 0
    /\ clock = 0
    /\ last = [op |-> "none"]

NextConcurrent ==
    \E p \in Invocations :
        \/ add_message_read(p)
        \/ add_message_write(p)

SpecConcurrent == InitConcurrent /\ [][NextConcurrent]_vars

----------------------------------------------------------------------------
(* Properties of the concurrent appends (SpecConcurrent).                  *)

\* C19: when two invocations have both returned True from appending to the
\* log of one user, with every Redis request answered and a capacity that
\* holds the turns of all invocations, the log contains the turns of both.
C19_ConcurrentAppendsBothKept ==
    \A p \in Invocations, q \in Invocations :
        (/\ p # q
         /\ sm_calls[p].pc = "returned" /\ sm_calls[q].pc = "returned"
         /\ sm_calls[p].result /\ sm_calls[q].result
         /\ sm_calls[p].redis_get = "ok" /\ sm_calls[q].redis_get = "ok"
         /\ sm_calls[p].user_id = sm_calls[q].user_id
         /\ MaxInvocations <= sm_max_memory_size) =>
            LET turns == Range(MapSeq(ShortLog(sm_calls[p].user_id), TurnOf))
            IN  /\ TurnOf(TurnOfInvocation(p)) \in turns
                /\ TurnOf(TurnOfInvocation(q)) \in turns

====
